---- MODULE Spec2Model ----
(***************************************************************************)
(* LoRa file transfer (DX-LR02): the stop-and-wait FILE/DATA/ACK/DONE      *)
(* protocol of lora_file_transfer.py (CLI) and lora_gui.py (GUI module),   *)
(* two endpoints joined by two order-preserving channels.                  *)
(*   endpoint "A" runs send_file; endpoint "B" runs the receiver.          *)
(***************************************************************************)
EXTENDS Integers, Sequences, FiniteSets, TLC

(***************************************************************************)
(* Bounds of the model.                                                    *)
(***************************************************************************)
\* Longest file sent, in bytes.
MaxFileLen == 4
\* Most records in flight (both channels and the sender's ACK queue) at
\* which a timer may still expire or the peer may still start a record.
MaxInFlight == 2
\* Most DATA or ACK records lost or corrupted where the link counts them
\* (below MAX_RETRIES).
MaxFaults == 1
\* Longest file name carried in a FILE record, in characters.
MaxNameLen == 3
\* Most transfers of one name received in a row.
MaxRuns == 3

(***************************************************************************)
(* Program constants.                                                      *)
(***************************************************************************)
\* Bytes of raw data per chunk (150 in the CLI, 100 in the GUI): scaled so
\* that files of a few bytes span several chunks.
CHUNK_SIZE == 2
MAX_RETRIES == 5

\* ft_mode is None; ft_receiving (and receive_file without a transfer) is None.
None == "None"
NoSession == [kind |-> "None"]

(***************************************************************************)
(* calculate_crc16: CRC16-CCITT, bit-serial, seed 0xFFFF, 16-bit wide.     *)
(***************************************************************************)
\* a ^ b, one bit at a time: p is the weight of the bit.
XorBit(a, b, p) == ((((a \div p) % 2) + ((b \div p) % 2)) % 2) * p

\* a ^ b for operands below 2^17 (crc << 1 has seventeen bits).
Xor(a, b) ==
    (((XorBit(a, b, 1) + XorBit(a, b, 2)) + (XorBit(a, b, 4) + XorBit(a, b, 8)))
     + ((XorBit(a, b, 16) + XorBit(a, b, 32))
        + (XorBit(a, b, 64) + XorBit(a, b, 128))))
    + (((XorBit(a, b, 256) + XorBit(a, b, 512))
        + (XorBit(a, b, 1024) + XorBit(a, b, 2048)))
       + ((XorBit(a, b, 4096) + XorBit(a, b, 8192))
          + (XorBit(a, b, 16384) + XorBit(a, b, 32768))))
    + XorBit(a, b, 65536)

\* One pass of "for _ in range(8)" on the value c of crc: shift,
\* conditional xor 0x1021, & 0xFFFF.
CrcPass(c) ==
    IF c >= 32768 THEN Xor(c * 2, 4129) % 65536 ELSE (c * 2) % 65536

\* crc after one more pass (crc is read once: it is a variable of the loop).
CrcStep(crc) == CHOOSE r \in {CrcPass(c) : c \in {crc}} : TRUE

\* The eight passes made for one byte.
CrcShift(crc) ==
    CrcStep(CrcStep(CrcStep(CrcStep(CrcStep(CrcStep(CrcStep(CrcStep(crc))))))))

\* One iteration of "for byte in data": crc ^= byte << 8, then the passes.
CrcByte(crc, byte) ==
    CHOOSE r \in {CrcShift(Xor(c, byte * 256)) : c \in {crc}} : TRUE

RECURSIVE CrcBytes(_, _)
CrcBytes(crc, data) ==
    IF data = <<>> THEN crc
    ELSE CrcBytes(CrcByte(crc, Head(data)), Tail(data))

HexDigits == <<"0", "1", "2", "3", "4", "5", "6", "7",
               "8", "9", "a", "b", "c", "d", "e", "f">>

\* format(crc, '04x'): four lowercase hex digits, most significant first.
Hex4(n) ==
    << HexDigits[((n \div 4096) % 16) + 1], HexDigits[((n \div 256) % 16) + 1],
       HexDigits[((n \div 16) % 16) + 1], HexDigits[(n % 16) + 1] >>

\* A CRC that starts from 0 (ruled out by C17).
calculate_crc16_seed0(data) ==
    CHOOSE hex \in {Hex4(crc) : crc \in {CrcBytes(0, d) : d \in {data}}} : TRUE

\* crc = 0xFFFF, the loop over data, format(crc, '04x') (data and the final
\* crc are each read once).
calculate_crc16(data) ==
    CHOOSE hex \in {Hex4(crc) : crc \in {CrcBytes(65535, d) : d \in {data}}} : TRUE

(***************************************************************************)
(* base64: a text is a sequence of symbols, 0..63 the alphabet in order,   *)
(* B64Pad the '=' sign, B64Junk any character outside the alphabet.        *)
(***************************************************************************)
B64Pad == 64
B64Junk == 65

RECURSIVE b64encode(_)
b64encode(bytes) ==
    IF bytes = <<>> THEN <<>>
    ELSE IF Len(bytes) = 1 THEN
        << bytes[1] \div 4, (bytes[1] % 4) * 16, B64Pad, B64Pad >>
    ELSE IF Len(bytes) = 2 THEN
        << bytes[1] \div 4, ((bytes[1] % 4) * 16) + (bytes[2] \div 16),
           (bytes[2] % 16) * 4, B64Pad >>
    ELSE
        << bytes[1] \div 4, ((bytes[1] % 4) * 16) + (bytes[2] \div 16),
           ((bytes[2] % 16) * 4) + (bytes[3] \div 64), bytes[3] % 64 >>
        \o b64encode(SubSeq(bytes, 4, Len(bytes)))

\* binascii.a2b_base64 without validation, as base64.b64decode calls it:
\* characters outside the alphabet are skipped, a completed pad sequence
\* ends the parse, leftover symbols raise binascii.Error (ok = FALSE).
RECURSIVE B64Scan(_, _, _, _, _)
B64Scan(syms, quad, left, pads, out) ==
    IF syms = <<>>
    THEN (IF quad # 0 THEN [ok |-> FALSE, bytes |-> <<>>]
                      ELSE [ok |-> TRUE, bytes |-> out])
    ELSE LET c == Head(syms) rest == Tail(syms) IN
        IF c = B64Pad THEN
            IF quad >= 2 /\ quad + pads + 1 >= 4 THEN [ok |-> TRUE, bytes |-> out]
            ELSE B64Scan(rest, quad, left, IF quad >= 2 THEN pads + 1 ELSE pads, out)
        ELSE IF c >= 64 THEN B64Scan(rest, quad, left, pads, out)
        ELSE IF quad = 0 THEN B64Scan(rest, 1, c, 0, out)
        ELSE IF quad = 1 THEN
            B64Scan(rest, 2, c % 16, 0, Append(out, (left * 4) + (c \div 16)))
        ELSE IF quad = 2 THEN
            B64Scan(rest, 3, c % 4, 0, Append(out, (left * 16) + (c \div 4)))
        ELSE B64Scan(rest, 0, 0, 0, Append(out, (left * 64) + c))

b64decode(syms) == B64Scan(syms, 0, 0, 0, <<>>)

(***************************************************************************)
(* Records on the wire, one per line.                                      *)
(***************************************************************************)
FILE(name, total, size) ==
    [kind |-> "FILE", name |-> name, total |-> total, size |-> size]
DATA(seq, crc, b64) == [kind |-> "DATA", seq |-> seq, crc |-> crc, b64 |-> b64]
ACK(seq) == [kind |-> "ACK", seq |-> seq]
NACK(seq) == [kind |-> "NACK", seq |-> seq]
DONE(crc) == [kind |-> "DONE", crc |-> crc]
OK == [kind |-> "OK"]
ABORT == [kind |-> "ABORT"]
\* Any other line: a chat message.
CHAT(text) == [kind |-> "CHAT", text |-> text]

Endpoints == {"A", "B"}

(***************************************************************************)
(* A record as the text of its line (the f-strings of send_file) and the   *)
(* text as the receiver takes it apart (startswith, split, int).  A text   *)
(* is the sequence of its characters; the base64 field of DATA, which      *)
(* split(':', 3) leaves whole, is kept as its symbols.                     *)
(***************************************************************************)
\* str(n), for the numbers the model reaches.
Digits == <<"0", "1", "2", "3", "4", "5", "6", "7", "8", "9">>
str(n) ==
    IF n < 10 THEN <<Digits[n + 1]>>
    ELSE <<Digits[((n \div 10) % 10) + 1], Digits[(n % 10) + 1]>>

\* int(s) succeeds on a string of decimal digits with an optional sign in
\* front; any other string the model builds raises ValueError.
is_int(s) ==
    LET digits == IF s # <<>> /\ s[1] \in {"-", "+"} THEN Tail(s) ELSE s
    IN digits # <<>> /\ \A i \in 1..Len(digits) : \E d \in 1..10 : digits[i] = Digits[d]
digit(c) == (CHOOSE d \in 1..10 : Digits[d] = c) - 1
RECURSIVE int(_)
int(s) ==
    IF s = <<>> THEN 0
    ELSE IF s[1] = "-" THEN 0 - int(Tail(s))
    ELSE IF s[1] = "+" THEN int(Tail(s))
    ELSE (int(SubSeq(s, 1, Len(s) - 1)) * 10) + digit(s[Len(s)])

\* The text each kind of transfer line starts with.
Tag == [FILE |-> <<"F", "I", "L", "E", ":">>,
        DATA |-> <<"D", "A", "T", "A", ":">>,
        DONE |-> <<"D", "O", "N", "E", ":">>]

\* f"FILE:{filename}:{total_chunks}:{filesize}",
\* f"DATA:{seq}:{chunk_crc}:{chunk_b64}", f"DONE:{file_crc}".
format_record(r) ==
    CASE r.kind = "FILE" ->
            Tag.FILE \o r.name \o <<":">> \o str(r.total) \o <<":">> \o str(r.size)
      [] r.kind = "DATA" ->
            Tag.DATA \o str(r.seq) \o <<":">> \o r.crc \o <<":">> \o r.b64
      [] r.kind = "DONE" -> Tag.DONE \o r.crc

\* text.find(':') + 1 from position i on: 0 when there is none.
RECURSIVE find_colon(_, _)
find_colon(text, i) ==
    IF i > Len(text) THEN 0
    ELSE IF text[i] = ":" THEN i
    ELSE find_colon(text, i + 1)

\* text.split(':', maxsplit); maxsplit = -1 splits at every colon.
RECURSIVE split(_, _)
split(text, maxsplit) ==
    IF maxsplit = 0 THEN <<text>>
    ELSE \* the position of the first colon is found once
         CHOOSE parts \in
            {IF i = 0 THEN <<text>>
             ELSE <<SubSeq(text, 1, i - 1)>>
                  \o split(SubSeq(text, i + 1, Len(text)), maxsplit - 1)
             : i \in {find_colon(text, 1)}} : TRUE

text_startswith(text, prefix) ==
    Len(text) >= Len(prefix) /\ SubSeq(text, 1, Len(prefix)) = prefix

\* line.startswith(p) for the prefixes the dispatcher tests.  A chat line
\* may begin with "OK" or "ABORT" without being that record; a line given
\* as its text (kind "RAW") is tested character by character.
ChatPrefix(text) ==
    CASE text = "OKAY" -> "OK"
      [] text = "ABORTED mission" -> "ABORT"
      [] OTHER -> ""
startswith(line, p) ==
    IF line.kind = "CHAT" THEN ChatPrefix(line.text) = p
    ELSE IF line.kind = "RAW"
    THEN p \in DOMAIN Tag /\ text_startswith(line.text, Tag[p])
    ELSE line.kind = p

\* A line the receiver's parsing rejects: nothing is done with it.
Invalid == [kind |-> "INVALID"]

\* The fields the receiver takes from a FILE, DATA or DONE line:
\* "len(parts) != 4" and ValueError reject the line.  A DATA line of four
\* parts whose sequence number is no numeral keeps that text (kind
\* "BADSEQ"): the CLI skips the line, the GUI answers it.
parse_line(text) ==
    IF text_startswith(text, Tag.FILE) THEN
        CHOOSE r \in
            {IF Len(parts) # 4 THEN Invalid
             ELSE IF ~is_int(parts[3]) \/ ~is_int(parts[4]) THEN Invalid
             ELSE FILE(parts[2], int(parts[3]), int(parts[4]))
             : parts \in {split(text, -1)}} : TRUE
    ELSE IF text_startswith(text, Tag.DATA) THEN
        CHOOSE r \in
            {IF Len(parts) # 4 THEN Invalid
             ELSE IF ~is_int(parts[2]) THEN [kind |-> "BADSEQ", seq |-> parts[2]]
             ELSE DATA(int(parts[2]), parts[3], parts[4])
             : parts \in {split(text, 3)}} : TRUE
    ELSE IF text_startswith(text, Tag.DONE) THEN
        CHOOSE r \in {DONE(parts[2]) : parts \in {split(text, -1)}} : TRUE
    ELSE Invalid

\* What the receiver makes of a record put on the air: FILE, DATA and DONE
\* are parsed from their text, as is a line given as its text; the other
\* lines are compared whole.
on_wire(r) ==
    IF r.kind \in {"FILE", "DATA", "DONE"}
    THEN CHOOSE p \in {parse_line(t) : t \in {format_record(r)}} : TRUE
    ELSE IF r.kind = "RAW" THEN parse_line(r.text)
    ELSE r

VARIABLES
    impl,          \* "cli": lora_file_transfer.py, "gui": lora_gui.py LoRaModule
    tracing,       \* whether wire keeps the history of emitted records
    file,          \* the file send_file is given: [name, data]
    prepared,      \* send_file's locals computed from the file
    a2b, b2a,      \* lines sent by A and not yet read by B, and the reverse
    wire,          \* every record emitted, in emission order (when tracing)
    spc,           \* send_file: "idle", "header", "chunks", "done", "returned"
    seq,           \* send_file: sequence number of the record awaited
    retry,         \* send_file: the retry loop's counter
    result,        \* send_file: "none", "success" (True), "failure" (False)
    ft_mode,       \* LoRaModule.ft_mode, per endpoint
    ft_queue,      \* LoRaModule.ft_queue, per endpoint
    ft_receiving,  \* LoRaModule.ft_receiving, per endpoint
    rx_queue,      \* LoRaModule.rx_queue, per endpoint
    loop,          \* LoRaModule.receive_loop: "running" or "stopped"
    rpc,           \* receive_file: "wait_file", "recv", "writing", "returned", "crashed"
    session,       \* receive_file's locals while receiving chunks
    disk,          \* files written under RECEIVE_DIR, per endpoint
    report,        \* the receiver's last outcome message (print, ft_progress_queue)
    faults,        \* records the link has lost or corrupted, where it is counted
    radio,         \* mode of the DX-LR02 module at A: "data" or "at"
    prog,          \* the program at A that switches modes, or "none"
    tpc,           \* that program's position
    pending,       \* answers of the module that have not reached the port yet
    response,      \* the program's local: what its first read returned
    late,          \* a read returned while an answer was still on its way
    config,        \* get_config's return value
    exit_code,     \* exit status of the process at A: "none", "0", "1"
    writing        \* LoRaModule.send at A: bytes on the port after the last newline,
                   \* and what each thread inside serial.write has still to write

\* The state of the mode-switching programs and of the module they drive,
\* and of the writes in progress on the port.
portVars == << radio, prog, tpc, pending, response, late, config, exit_code, writing >>

vars == << impl, tracing, file, prepared, a2b, b2a, wire, spc, seq, retry, result,
           ft_mode, ft_queue, ft_receiving, rx_queue, loop, rpc, session, disk,
           report, faults, portVars >>

(***************************************************************************)
(* The file and its chunks (send_file, both variants).                     *)
(***************************************************************************)
\* "abc" repeated, as in the reference scenario.
Pattern(n) == [i \in 1..n |-> 97 + ((i - 1) % 3)]
\* A file name is the sequence of its characters.
HelloTxt == <<"h", "e", "l", "l", "o", ".", "t", "x", "t">>
Files == {[name |-> HelloTxt, data |-> Pattern(n)] : n \in 0..MaxFileLen}

Min(a, b) == IF a < b THEN a ELSE b

\* A chunking that gives the empty file one empty chunk (ruled out by C20).
chunks_of_never_empty(data) ==
    [i \in 1..(IF data = <<>> THEN 1 ELSE (Len(data) + CHUNK_SIZE - 1) \div CHUNK_SIZE) |->
        SubSeq(data, ((i - 1) * CHUNK_SIZE) + 1, Min(i * CHUNK_SIZE, Len(data)))]

\* A chunking that closes a file of a whole number of chunks with an empty
\* chunk (ruled out by C34).
chunks_of_trailing_empty(data) ==
    [i \in 1..((Len(data) \div CHUNK_SIZE) + 1) |->
        SubSeq(data, ((i - 1) * CHUNK_SIZE) + 1, Min(i * CHUNK_SIZE, Len(data)))]

\* chunks = [data[i:i+CHUNK_SIZE] for i in range(0, len(data), CHUNK_SIZE)]
chunks_of(data) ==
    [i \in 1..((Len(data) + CHUNK_SIZE - 1) \div CHUNK_SIZE) |->
        SubSeq(data, ((i - 1) * CHUNK_SIZE) + 1, Min(i * CHUNK_SIZE, Len(data)))]

\* The locals send_file computes from the file before its first emission:
\* total_chunks, the FILE header, the DATA packet of every chunk and the
\* DONE packet carrying the CRC of the whole file.
prepare(f) ==
    [total_chunks |-> Len(chunks_of(f.data)),
     header |-> FILE(f.name, Len(chunks_of(f.data)), Len(f.data)),
     packets |-> [k \in 1..Len(chunks_of(f.data)) |->
                    DATA(k, calculate_crc16(chunks_of(f.data)[k]),
                         b64encode(chunks_of(f.data)[k]))],
     done_packet |-> DONE(calculate_crc16(f.data))]

total_chunks == prepared.total_chunks
header == prepared.header
packet(k) == prepared.packets[k]
done_packet == prepared.done_packet

(***************************************************************************)
(* Channels and the wire.                                                  *)
(***************************************************************************)
Trace(out) == IF tracing THEN wire \o out ELSE wire

\* Records emitted and not yet consumed by whoever handles them.
InFlight ==
    Len(a2b) + Len(b2a) + Len(ft_queue["A"]) + Len(ft_queue["B"])
    + Len(rx_queue["A"]) + Len(rx_queue["B"])

\* read_line (CLI): one ser.read takes every byte that has arrived, the
\* first complete line is returned and the rest of the local buffer is
\* forgotten; k is the number of further lines that had arrived with it.
read_line_rest(chan, k) == SubSeq(chan, k + 2, Len(chan))

(***************************************************************************)
(* send_file at endpoint A (both variants share the three retry loops).    *)
(***************************************************************************)
Waiting == {"header", "chunks", "done"}

expected_seq == IF spc = "chunks" THEN seq ELSE 0

current_packet ==
    CASE spc = "header" -> header
      [] spc = "chunks" -> packet(seq)
      [] spc = "done" -> done_packet

\* wait_for_ack of the CLI, given the line read_line returned.
wait_for_ack(line, expected) ==
    IF line = ACK(expected) THEN "ack"
    ELSE IF line = NACK(expected) THEN "nack"
    ELSE IF line = ABORT THEN "abort"
    ELSE "unexpected"

\* LoRaModule._wait_for_ack of the GUI, for one item of ft_queue: any
\* other line is discarded and the wait goes on ("skip").
gui_wait_for_ack(line, expected) ==
    IF line = ACK(expected) THEN "ack"
    ELSE IF line = NACK(expected) THEN "nack"
    ELSE IF line = OK THEN "ok"
    ELSE IF line = ABORT THEN "abort"
    ELSE "skip"

\* A DONE loop that takes any line for the final OK (ruled out by C3).
cli_success_any(line) ==
    IF spc = "done" THEN TRUE
    ELSE wait_for_ack(line, expected_seq) = "ack"

\* "if success: break" of the header and chunk loops, "line == 'OK'" (CLI)
\* and "success and reason == 'ok'" (GUI) of the DONE loop.
cli_success(line) ==
    IF spc = "done" THEN line = OK
    ELSE wait_for_ack(line, expected_seq) = "ack"
gui_success(reason) ==
    IF spc = "done" THEN reason = "ok"
    ELSE reason \in {"ack", "ok"}

\* Loops that share one attempt counter (ruled out by C28).
advance_carries_retry ==
    IF spc = "done" THEN
        [spc |-> "returned", seq |-> seq, retry |-> retry,
         result |-> "success", out |-> <<>>]
    ELSE IF seq < total_chunks THEN
        [spc |-> "chunks", seq |-> seq + 1, retry |-> retry,
         result |-> "none", out |-> <<packet(seq + 1)>>]
    ELSE
        [spc |-> "done", seq |-> seq, retry |-> retry,
         result |-> "none", out |-> <<done_packet>>]

\* A loop left by break (or the return True of the DONE loop): the next
\* record is emitted.
advance ==
    IF spc = "done" THEN
        [spc |-> "returned", seq |-> seq, retry |-> retry,
         result |-> "success", out |-> <<>>]
    ELSE IF seq < total_chunks THEN
        [spc |-> "chunks", seq |-> seq + 1, retry |-> 0,
         result |-> "none", out |-> <<packet(seq + 1)>>]
    ELSE
        [spc |-> "done", seq |-> seq, retry |-> 0,
         result |-> "none", out |-> <<done_packet>>]

\* A chunk loop that gives up without telling the receiver (ruled out by C7).
attempt_failed_silent ==
    IF retry + 1 < MAX_RETRIES THEN
        [spc |-> spc, seq |-> seq, retry |-> retry + 1,
         result |-> "none", out |-> <<current_packet>>]
    ELSE
        [spc |-> "returned", seq |-> seq, retry |-> retry,
         result |-> "failure", out |-> <<>>]

\* Retry loops that all emit ABORT when exhausted (ruled out by C8).
attempt_failed_abort_always ==
    IF retry + 1 < MAX_RETRIES THEN
        [spc |-> spc, seq |-> seq, retry |-> retry + 1,
         result |-> "none", out |-> <<current_packet>>]
    ELSE
        [spc |-> "returned", seq |-> seq, retry |-> retry,
         result |-> "failure", out |-> <<ABORT>>]

\* Retry loops that run once more than MAX_RETRIES (ruled out by C39).
attempt_failed_one_more ==
    IF retry < MAX_RETRIES THEN
        [spc |-> spc, seq |-> seq, retry |-> retry + 1,
         result |-> "none", out |-> <<current_packet>>]
    ELSE
        [spc |-> "returned", seq |-> seq, retry |-> retry,
         result |-> "failure",
         out |-> IF spc = "chunks" THEN <<ABORT>> ELSE <<>>]

\* An attempt that did not succeed: the next iteration of
\* "for retry in range(MAX_RETRIES)" emits the record again; when the range
\* is exhausted the chunk loop emits ABORT, and all three return False.
attempt_failed ==
    IF retry + 1 < MAX_RETRIES THEN
        [spc |-> spc, seq |-> seq, retry |-> retry + 1,
         result |-> "none", out |-> <<current_packet>>]
    ELSE
        [spc |-> "returned", seq |-> seq, retry |-> retry,
         result |-> "failure",
         out |-> IF spc = "chunks" THEN <<ABORT>> ELSE <<>>]

SenderApply(m) ==
    /\ spc' = m.spc
    /\ seq' = m.seq
    /\ retry' = m.retry
    /\ result' = m.result
    /\ a2b' = a2b \o m.out
    /\ wire' = Trace(m.out)
    /\ ft_mode' = IF impl = "gui" /\ m.spc = "returned"
                  THEN [ft_mode EXCEPT !["A"] = None]
                  ELSE ft_mode

\* send_file up to the first emission of the FILE header.
SendFileStart ==
    /\ spc = "idle"
    /\ spc' = "header"
    /\ seq' = 0
    /\ retry' = 0
    /\ a2b' = Append(a2b, header)
    /\ wire' = Trace(<<header>>)
    /\ IF impl = "gui"
       THEN /\ ft_mode' = [ft_mode EXCEPT !["A"] = "send"]
            /\ ft_queue' = [ft_queue EXCEPT !["A"] = <<>>]
       ELSE UNCHANGED << ft_mode, ft_queue >>
    /\ UNCHANGED << portVars, impl, tracing, file, prepared, report, faults, b2a, result, ft_receiving, rx_queue,
                    loop, rpc, session, disk >>

\* CLI: read_line returned a line to the waiting loop.
CliSenderRecv ==
    /\ impl = "cli"
    /\ spc \in Waiting
    /\ b2a # <<>>
    /\ \E k \in 0..(Len(b2a) - 1) : b2a' = read_line_rest(b2a, k)
    /\ SenderApply(IF cli_success(Head(b2a)) THEN advance ELSE attempt_failed)
    /\ UNCHANGED << portVars, impl, tracing, file, prepared, report, faults, ft_queue, ft_receiving, rx_queue,
                    loop, rpc, session, disk >>

\* GUI: _wait_for_ack took one line from ft_queue.
GuiSenderRecv ==
    /\ impl = "gui"
    /\ spc \in Waiting
    /\ ft_queue["A"] # <<>>
    /\ ft_queue' = [ft_queue EXCEPT !["A"] = Tail(@)]
    /\ LET reason == gui_wait_for_ack(Head(ft_queue["A"]), expected_seq) IN
        IF reason = "skip"
        THEN UNCHANGED << spc, seq, retry, result, a2b, wire, ft_mode >>
        ELSE SenderApply(IF gui_success(reason) THEN advance ELSE attempt_failed)
    /\ UNCHANGED << portVars, impl, tracing, file, prepared, report, faults, b2a, ft_receiving, rx_queue,
                    loop, rpc, session, disk >>

\* ACK_TIMEOUT expired with no line for the sender.
SenderTimeout ==
    /\ spc \in Waiting
    /\ IF impl = "cli" THEN b2a = <<>> ELSE ft_queue["A"] = <<>>
    /\ InFlight < MaxInFlight
    /\ SenderApply(attempt_failed)
    /\ UNCHANGED << portVars, impl, tracing, file, prepared, report, faults, b2a, ft_queue, ft_receiving, rx_queue,
                    loop, rpc, session, disk >>


(***************************************************************************)
(* The receiver: the chunk store and the handling of DATA and DONE.        *)
(***************************************************************************)
EmptyChunks == [s \in {} |-> <<>>]

\* chunks[seq] = chunk_data
store(chunks, s, data) ==
    [i \in (DOMAIN chunks) \cup {s} |-> IF i = s THEN data ELSE chunks[i]]

\* A join that walks the keys downwards (ruled out by C1).
RECURSIVE join_descending(_, _)
join_descending(chunks, total) ==
    IF total <= 0 THEN <<>> ELSE chunks[total] \o join_descending(chunks, total - 1)

\* b''.join(chunks[i] for i in range(1, total + 1)), every key present.
RECURSIVE join(_, _)
join(chunks, total) ==
    IF total <= 0 THEN <<>> ELSE join(chunks, total - 1) \o chunks[total]

\* The keys range(1, total + 1) looks up and the store lacks: KeyError.
missing(chunks, total) == (1..total) \ DOMAIN chunks

\* A receiver that stores whatever decodes (ruled out by C5).
crc_unchecked(line) == b64decode(line.b64).ok

\* The chunk accepted from a DATA line: base64 decodes and the CRC of the
\* decoded bytes equals the CRC field.
crc_ok(line) ==
    \E decoded \in {b64decode(line.b64)} :
        /\ decoded.ok
        /\ calculate_crc16(decoded.bytes) = line.crc

new_session(line) ==
    [filename |-> line.name, total_chunks |-> line.total, size |-> line.size,
     chunks |-> EmptyChunks, expected_seq |-> 1]

\* A receiver that saves the reassembled bytes without comparing their CRC
\* with the one DONE carries (ruled out by C38).
done_verdict_unchecked(sess, line) ==
    IF Cardinality(DOMAIN sess.chunks) # sess.total_chunks THEN "Missing chunks"
    ELSE IF missing(sess.chunks, sess.total_chunks) # {} THEN "KeyError"
    ELSE "ok"

\* DONE, the checks both variants make in this order: the length test
\* ("Missing chunks"), the join (KeyError when a key of range(1, total + 1)
\* is absent), the CRC of the joined bytes ("File CRC mismatch").
done_verdict(sess, line) ==
    IF Cardinality(DOMAIN sess.chunks) # sess.total_chunks THEN "Missing chunks"
    ELSE IF missing(sess.chunks, sess.total_chunks) # {} THEN "KeyError"
    ELSE IF calculate_crc16(join(sess.chunks, sess.total_chunks)) # line.crc
         THEN "File CRC mismatch"
    ELSE "ok"

(***************************************************************************)
(* Where the receiver writes: os.path.basename, os.path.join,              *)
(* os.path.exists, os.path.splitext and the "avoid overwriting" loop.      *)
(***************************************************************************)
RECEIVE_DIR == <<".", "/", "l", "o", "r", "a", "_", "r", "e", "c", "e", "i", "v", "e", "d">>

\* p.rfind(ch) + 1: the last position of ch in p, 0 when absent.
rfind(p, ch) ==
    IF \E i \in 1..Len(p) : p[i] = ch
    THEN CHOOSE i \in 1..Len(p) : p[i] = ch /\ \A j \in (i + 1)..Len(p) : p[j] # ch
    ELSE 0

\* os.path.basename: what follows the last "/".
basename(p) == SubSeq(p, rfind(p, "/") + 1, Len(p))

\* os.path.join(a, b) for two parts.
path_join(a, b) ==
    IF b # <<>> /\ b[1] = "/" THEN b
    ELSE IF a = <<>> \/ a[Len(a)] = "/" THEN a \o b
    ELSE a \o <<"/">> \o b

\* os.path.splitext: the extension starts at the last dot of the last
\* component, unless only dots precede it there.
splitext(p) ==
    LET sepIndex == rfind(p, "/")
        dotIndex == rfind(p, ".")
    IN IF dotIndex > sepIndex
          /\ \E i \in (sepIndex + 1)..(dotIndex - 1) : p[i] # "."
       THEN [base |-> SubSeq(p, 1, dotIndex - 1), ext |-> SubSeq(p, dotIndex, Len(p))]
       ELSE [base |-> p, ext |-> <<>>]

\* The paths of the files written so far.
Paths(files) == {files[i].name : i \in 1..Len(files)}

\* os.path.exists for a path in RECEIVE_DIR: a file written there, or the
\* directory itself ("" and "."), or its parent ("..").
exists(files, path) ==
    \/ path \in Paths(files)
    \/ basename(path) \in {<<>>, <<".">>, <<".", ".">>}

\* "while os.path.exists(output_path)": the first counter whose path is free.
RECURSIVE next_free(_, _, _, _)
next_free(files, base, ext, counter) ==
    LET candidate == path_join(RECEIVE_DIR, base \o <<"_">> \o str(counter) \o ext)
    IN IF exists(files, candidate)
       THEN next_free(files, base, ext, counter + 1)
       ELSE candidate

\* A receiver that joins the name as received (ruled out by C15).
output_path_unsafe(files, filename) == path_join(RECEIVE_DIR, filename)

\* A receiver that always writes the plain path (ruled out by C16).
output_path_overwrite(files, filename) == path_join(RECEIVE_DIR, basename(filename))

\* output_path of the file about to be written.
output_path(files, filename) ==
    LET safe_filename == basename(filename)
        plain == path_join(RECEIVE_DIR, safe_filename)
    IN IF exists(files, plain)
       THEN next_free(files, splitext(safe_filename).base,
                      splitext(safe_filename).ext, 1)
       ELSE plain

\* The file written at DONE: its path and its bytes.
saved(files, sess) ==
    [name |-> output_path(files, sess.filename),
     data |-> join(sess.chunks, sess.total_chunks)]

(***************************************************************************)
(* receive_file (CLI) at endpoint B.  The result of handling one line:     *)
(* the loop position, the locals, the records emitted, the files written.  *)
(***************************************************************************)
receive_file(line) ==
    LET stay == [rpc |-> rpc, session |-> session, out |-> <<>>, write |-> <<>>,
                 report |-> report["B"]]
        outer == [stay EXCEPT !.rpc = "wait_file", !.session = NoSession]
    IN
    IF rpc = "wait_file" THEN
        IF line.kind = "FILE"
        THEN [stay EXCEPT !.rpc = "recv", !.session = new_session(line),
                          !.out = <<ACK(0)>>, !.report = "receiving"]
        ELSE stay
    ELSE IF line.kind = "DATA" THEN
        IF ~crc_ok(line) THEN [stay EXCEPT !.out = <<NACK(line.seq)>>]
        ELSE LET stored == [session EXCEPT
                    !.chunks = store(@, line.seq, b64decode(line.b64).bytes)]
             IN IF line.seq # session.expected_seq
                THEN [stay EXCEPT !.session = stored, !.out = <<ACK(line.seq)>>]
                \* progress = len(chunks) / total_chunks: ZeroDivisionError
                ELSE IF session.total_chunks = 0
                THEN [stay EXCEPT
                        !.rpc = "crashed",
                        !.session = [stored EXCEPT !.expected_seq = @ + 1],
                        !.out = <<ACK(line.seq)>>, !.report = "ZeroDivisionError"]
                ELSE [stay EXCEPT
                        !.session = [stored EXCEPT !.expected_seq = @ + 1],
                        !.out = <<ACK(line.seq)>>]
    ELSE IF line.kind = "DONE" THEN
        CHOOSE m \in {
            CASE verdict \in {"Missing chunks", "File CRC mismatch"} ->
                    [outer EXCEPT !.out = <<ABORT>>, !.report = verdict]
              [] verdict = "KeyError" ->
                    [stay EXCEPT !.rpc = "crashed", !.report = verdict]
              [] verdict = "ok" ->
                    [outer EXCEPT !.rpc = "returned", !.out = <<OK>>,
                                  !.write = <<saved(disk["B"], session)>>,
                                  !.report = "File saved"]
            : verdict \in {done_verdict(session, line)}} : TRUE
    ELSE IF line = ABORT THEN [outer EXCEPT !.report = "ABORT"]
    ELSE stay

CliReceiverRecv ==
    /\ impl = "cli"
    /\ rpc \in {"wait_file", "recv"}
    /\ a2b # <<>>
    /\ \E k \in 0..(Len(a2b) - 1) : a2b' = read_line_rest(a2b, k)
    /\ \E m \in {receive_file(line) : line \in {on_wire(Head(a2b))}} :
        /\ rpc' = m.rpc
        /\ session' = m.session
        /\ b2a' = b2a \o m.out
        /\ wire' = Trace(m.out)
        /\ disk' = [disk EXCEPT !["B"] = @ \o m.write]
        /\ report' = [report EXCEPT !["B"] = m.report]
    /\ UNCHANGED << portVars, impl, tracing, file, prepared, faults, spc, seq, retry, result, ft_mode,
                    ft_queue, ft_receiving, rx_queue, loop >>

\* receive_file at DONE, as far as open(output_path, 'wb'): the checks have
\* passed, the output path is chosen and the file is created there, empty.
open_output ==
    /\ impl = "cli"
    /\ rpc = "recv"
    /\ a2b # <<>>
    /\ \E k \in 0..(Len(a2b) - 1) : a2b' = read_line_rest(a2b, k)
    /\ \E m \in {receive_file(line) : line \in {on_wire(Head(a2b))}} :
        /\ m.write # <<>>
        /\ disk' = [disk EXCEPT !["B"] = Append(@, [name |-> m.write[1].name, data |-> <<>>])]
    /\ rpc' = "writing"
    /\ UNCHANGED << portVars, impl, tracing, file, prepared, report, faults, b2a, wire, spc, seq, retry,
                    result, ft_mode, ft_queue, ft_receiving, rx_queue, loop, session >>

\* receive_file from f.write(file_data) to its return: the bytes reach the
\* file that was opened, then OK is sent.
write_output ==
    /\ impl = "cli"
    /\ rpc = "writing"
    /\ LET path == Len(disk["B"])
           file_data == join(session.chunks, session.total_chunks)
       IN disk' = [disk EXCEPT !["B"][path].data = file_data]
    /\ b2a' = Append(b2a, OK)
    /\ wire' = Trace(<<OK>>)
    /\ rpc' = "returned"
    /\ session' = NoSession
    /\ report' = [report EXCEPT !["B"] = "File saved"]
    /\ UNCHANGED << portVars, impl, tracing, file, prepared, faults, a2b, spc, seq, retry, result,
                    ft_mode, ft_queue, ft_receiving, rx_queue, loop >>

\* read_line() returned None in the chunk loop: NACK for the expected chunk.
CliReceiverTimeout ==
    /\ impl = "cli"
    /\ rpc = "recv"
    /\ a2b = <<>>
    /\ InFlight < MaxInFlight
    /\ b2a' = Append(b2a, NACK(session.expected_seq))
    /\ wire' = Trace(<<NACK(session.expected_seq)>>)
    /\ UNCHANGED << portVars, impl, tracing, file, prepared, report, faults, a2b, spc, seq, retry, result, ft_mode,
                    ft_queue, ft_receiving, rx_queue, loop, rpc, session, disk >>

(***************************************************************************)
(* LoRaModule (GUI): _handle_incoming_transfer and receive_loop, at either *)
(* endpoint.                                                               *)
(***************************************************************************)
\* The result of handling one line: ft_receiving, ft_mode, the records
\* sent, the files written, and whether an exception left the handler.
handle_incoming_transfer(e, line) ==
    LET sess == ft_receiving[e]
        same == [recv |-> sess, mode |-> ft_mode[e], out |-> <<>>,
                 write |-> <<>>, raised |-> FALSE, report |-> report[e]]
        ended == [same EXCEPT !.recv = NoSession, !.mode = None]
    IN
    IF line.kind = "FILE" THEN
        [same EXCEPT !.recv = new_session(line), !.mode = "receive",
                     !.out = <<ACK(0)>>, !.report = "receiving"]
    ELSE IF line.kind = "DATA" /\ sess # NoSession THEN
        LET decoded == b64decode(line.b64) IN
        IF ~decoded.ok THEN [same EXCEPT !.out = <<NACK(line.seq)>>]
        ELSE IF calculate_crc16(decoded.bytes) = line.crc THEN
            [same EXCEPT
                !.recv = [sess EXCEPT
                    !.chunks = store(@, line.seq, decoded.bytes)],
                \* progress = len(chunks) / total_chunks: a ZeroDivisionError
                \* is caught by "except Exception", which sends NACK
                !.out = IF sess.total_chunks = 0
                        THEN <<ACK(line.seq), NACK(line.seq)>>
                        ELSE <<ACK(line.seq)>>]
        ELSE [same EXCEPT !.out = <<NACK(line.seq)>>]
    \* int(seq_str) raises ValueError: "except Exception" sends NACK:{seq_str}
    ELSE IF line.kind = "BADSEQ" /\ sess # NoSession THEN
        [same EXCEPT !.out = <<NACK(line.seq)>>]
    ELSE IF line.kind = "DONE" /\ sess # NoSession THEN
        LET verdict == done_verdict(sess, line) IN
        CASE verdict \in {"Missing chunks", "File CRC mismatch"} ->
                [ended EXCEPT !.out = <<ABORT>>, !.report = verdict]
          [] verdict = "KeyError" ->
                [same EXCEPT !.raised = TRUE, !.report = verdict]
          [] verdict = "ok" ->
                [ended EXCEPT !.out = <<OK>>, !.write = <<saved(disk[e], sess)>>,
                              !.report = "File saved"]
    ELSE IF line = ABORT THEN [ended EXCEPT !.report = "ABORT"]
    ELSE same

Inbox(e) == IF e = "A" THEN b2a ELSE a2b

\* One line of receive_loop: routed to ft_queue, to the transfer handler or
\* to rx_queue; an exception ends the loop with an [ERROR] message.
receive_loop(e) ==
    /\ impl = "gui"
    /\ loop[e] = "running"
    /\ Inbox(e) # <<>>
    /\ \E m \in {handle_incoming_transfer(e, parsed) :
                    parsed \in {on_wire(Head(Inbox(e)))}} :
       LET line == Head(Inbox(e))
           toSender == /\ ft_mode[e] = "send"
                       /\ \/ startswith(line, "ACK") \/ startswith(line, "NACK")
                          \/ startswith(line, "OK") \/ startswith(line, "ABORT")
           toHandler == \/ startswith(line, "FILE") \/ startswith(line, "DATA")
                        \/ startswith(line, "DONE") \/ startswith(line, "ABORT")
           out == IF ~toSender /\ toHandler THEN m.out ELSE <<>>
       IN
        /\ IF e = "A"
           THEN b2a' = Tail(b2a) /\ a2b' = a2b \o out
           ELSE a2b' = Tail(a2b) /\ b2a' = b2a \o out
        /\ wire' = Trace(out)
        /\ IF toSender THEN
                /\ ft_queue' = [ft_queue EXCEPT ![e] = Append(@, line)]
                /\ UNCHANGED << ft_mode, ft_receiving, rx_queue, loop, disk, report >>
           ELSE IF toHandler THEN
                /\ report' = [report EXCEPT ![e] = m.report]
                /\ ft_receiving' = [ft_receiving EXCEPT ![e] = m.recv]
                /\ ft_mode' = [ft_mode EXCEPT ![e] = m.mode]
                /\ disk' = [disk EXCEPT ![e] = @ \o m.write]
                /\ loop' = IF m.raised THEN [loop EXCEPT ![e] = "stopped"] ELSE loop
                /\ rx_queue' = IF m.raised
                               THEN [rx_queue EXCEPT ![e] = Append(@, CHAT("[ERROR]"))]
                               ELSE rx_queue
                /\ UNCHANGED ft_queue
           ELSE /\ rx_queue' = [rx_queue EXCEPT ![e] = Append(@, line)]
                /\ UNCHANGED << ft_mode, ft_queue, ft_receiving, loop, disk, report >>
    /\ UNCHANGED << portVars, impl, tracing, file, prepared, faults, spc, seq, retry, result, rpc, session >>

\* The threads of the GUI process that call LoRaModule.send: the Tk thread
\* (send_message), the send_file thread and the receive_loop thread (the
\* handler's replies), each with the bytes of one record it writes.
Threads == {"chat", "session", "reply"}

message(t) ==
    CASE t = "chat" -> <<"h", "i", "\r\n">>
      [] t = "session" -> <<"A", "B", "O", "R", "T", "\r\n">>
      [] t = "reply" -> <<"O", "K", "\r\n">>

\* The os.write calls one serial.write may need.
MaxPieces == 2

NoWrite == [tail |-> <<>>, todo |-> [t \in Threads |-> <<>>], calls |-> [t \in Threads |-> 0]]

\* LoRaModule.send in thread t, one os.write of serial.write at a time: the
\* call takes no lock, and serial.write loops until the port has accepted
\* every byte, n bytes in this step and the rest by the call's last
\* os.write.  A line is complete at its newline.
send(t) ==
    /\ impl = "gui"
    /\ Len(a2b) + Len(rx_queue["B"]) < MaxInFlight
    /\ LET bytes == IF writing.todo[t] = <<>> THEN message(t) ELSE writing.todo[t]
       IN \E n \in 1..Len(bytes) :
            LET last == n = Len(bytes)
                onport == writing.tail \o SubSeq(bytes, 1, n)
                ended == bytes[n] = "\r\n"
                line == [kind |-> "RAW", text |-> SubSeq(onport, 1, Len(onport) - 1)]
            IN /\ writing.calls[t] = MaxPieces - 1 => last
               /\ writing' = [tail |-> IF ended THEN <<>> ELSE onport,
                              todo |-> [writing.todo EXCEPT
                                            ![t] = SubSeq(bytes, n + 1, Len(bytes))],
                              calls |-> [writing.calls EXCEPT
                                            ![t] = IF last THEN 0 ELSE @ + 1]]
               /\ a2b' = IF ended THEN Append(a2b, line) ELSE a2b
               /\ wire' = IF ended THEN Trace(<<line>>) ELSE wire
    /\ UNCHANGED << radio, prog, tpc, pending, response, late, config, exit_code,
                    impl, tracing, file, prepared, report, faults, b2a, spc, seq, retry, result,
                    ft_mode, ft_queue, ft_receiving, rx_queue, loop, rpc, session, disk >>

\* LoRaGUI.poll_rx: the GUI thread empties rx_queue into the message view.
poll_rx(e) ==
    /\ impl = "gui"
    /\ rx_queue[e] # <<>>
    /\ rx_queue' = [rx_queue EXCEPT ![e] = <<>>]
    /\ UNCHANGED << portVars, impl, tracing, file, prepared, report, faults, a2b, b2a, wire, spc, seq, retry, result,
                    ft_mode, ft_queue, ft_receiving, loop, rpc, session, disk >>


(***************************************************************************)
(* The peer's user and the radio link.                                     *)
(***************************************************************************)
\* What the user of the peer GUI can put on the air while A sends: a chat
\* message (send_message: "OK" is the line OK, and a message may begin with
\* the letters of a control record), or the FILE header of a transfer of
\* their own (send_file).
PeerLines ==
    {OK, CHAT("hello"), CHAT("OKAY"), CHAT("ABORTED mission"),
     FILE(<<"p", "e", "e", "r", ".", "b", "i", "n">>, 1, 1)}

PeerInject ==
    /\ InFlight < MaxInFlight
    /\ \E line \in PeerLines :
        /\ b2a' = Append(b2a, line)
        /\ wire' = Trace(<<line>>)
    /\ UNCHANGED << portVars, impl, tracing, file, prepared, report, faults, a2b, spc, seq, retry, result, ft_mode,
                    ft_queue, ft_receiving, rx_queue, loop, rpc, session, disk >>

\* Whatever the peer and the link may hand to send_file while it waits: an
\* ACK or NACK of any number, OK, ABORT or a chat line, one at a time.
AnyAnswer ==
    /\ spc \in Waiting
    /\ a2b = <<>> /\ b2a = <<>> /\ ft_queue["A"] = <<>> /\ rx_queue["A"] = <<>>
    /\ \E line \in {ACK(k) : k \in 0..total_chunks} \cup {NACK(k) : k \in 0..total_chunks}
                    \cup {OK, ABORT, CHAT("hello")} :
        b2a' = <<line>>
    /\ UNCHANGED << portVars, impl, tracing, file, prepared, report, faults, a2b, wire, spc,
                    seq, retry, result, ft_mode, ft_queue, ft_receiving, rx_queue, loop, rpc,
                    session, disk >>

\* A wrong CRC field: the first hex digit changed.
bad_crc(crc) == [crc EXCEPT ![1] = IF @ = "0" THEN "1" ELSE "0"]

\* A sender at A that is not send_file: it puts on the air a line of its
\* choice, well-formed or not, and drops the answers that have arrived.
\* The lines: FILE:a:0:0, FILE:a:1:1, DATA:1 for the byte "a" (intact, with
\* a wrong CRC, with a base64 text that does not decode), DONE, a chat
\* message, and as texts FILE:a:1, FILE:a:x:1, FILE:a:-1:1, FILE:a:1:-1,
\* DATA:1:ffff and DATA:x:ffff:<base64>.
RawSend ==
    /\ spc = "idle"
    /\ Len(a2b) + Len(rx_queue["B"]) < MaxInFlight
    /\ Len(disk["B"]) < MaxRuns
    /\ \E line \in
          LET good == DATA(1, calculate_crc16(<<97>>), b64encode(<<97>>)) IN
          {FILE(<<"a">>, 0, 0), FILE(<<"a">>, 1, 1),
           good, [good EXCEPT !.crc = bad_crc(@)], [good EXCEPT !.b64 = <<24>>],
           DONE(calculate_crc16(<<97>>)), CHAT("hello"),
           [kind |-> "RAW", text |-> Tag.FILE \o <<"a", ":", "1">>],
           [kind |-> "RAW", text |-> Tag.FILE \o <<"a", ":", "x", ":", "1">>],
           [kind |-> "RAW", text |-> Tag.FILE \o <<"a", ":", "-", "1", ":", "1">>],
           [kind |-> "RAW", text |-> Tag.FILE \o <<"a", ":", "1", ":", "-", "1">>],
           [kind |-> "RAW", text |-> Tag.DATA \o <<"1", ":", "f", "f", "f", "f">>],
           [kind |-> "RAW", text |-> Tag.DATA \o <<"x", ":", "f", "f", "f", "f", ":">>
                                     \o b64encode(<<97>>)]} :
        /\ a2b' = Append(a2b, line)
        /\ wire' = Trace(<<line>>)
    /\ b2a' = <<>>
    /\ UNCHANGED << portVars, impl, tracing, file, prepared, report, faults, spc, seq, retry,
                    result, ft_mode, ft_queue, ft_receiving, rx_queue, loop, rpc, session,
                    disk >>

\* What the link can turn a record into (each record is hit at most once):
\* a changed digit of a number, a changed CRC digit, a changed or
\* non-alphabet base64 character.
Corruptions(r) ==
    IF r.kind = "DATA" /\ r \in {packet(k) : k \in 1..total_chunks} THEN
        {[r EXCEPT !.seq = @ + 1], [r EXCEPT !.crc = bad_crc(@)],
         [r EXCEPT !.b64 = [@ EXCEPT ![1] = (@ + 1) % 64]],
         [r EXCEPT !.b64 = [@ EXCEPT ![1] = B64Junk]]}
    ELSE IF r.kind \in {"ACK", "NACK"} /\ r.seq <= total_chunks THEN
        {[r EXCEPT !.seq = @ + 1]}
    ELSE IF r = done_packet THEN {[r EXCEPT !.crc = bad_crc(@)]}
    ELSE IF r = header THEN {[r EXCEPT !.total = @ + 1]}
    ELSE {}

\* A DATA record or the ACK of one.
ChunkTraffic(r) == r.kind = "DATA" \/ (r.kind = "ACK" /\ r.seq >= 1)

\* The link drops the oldest record in flight, one direction or the other
\* (where faults are counted, only a DATA record or its ACK).
LoseRecord(counted) ==
    /\ \/ /\ a2b # <<>>
          /\ counted => ChunkTraffic(Head(a2b))
          /\ a2b' = Tail(a2b)
          /\ UNCHANGED b2a
       \/ /\ b2a # <<>>
          /\ counted => ChunkTraffic(Head(b2a))
          /\ b2a' = Tail(b2a)
          /\ UNCHANGED a2b
    /\ UNCHANGED << portVars, impl, tracing, file, prepared, report, wire, spc, seq, retry,
                    result, ft_mode, ft_queue, ft_receiving, rx_queue, loop, rpc,
                    session, disk >>

\* The link delivers the oldest record in flight with a character changed.
CorruptRecord(counted) ==
    /\ \/ /\ a2b # <<>>
          /\ counted => ChunkTraffic(Head(a2b))
          /\ \E c \in Corruptions(Head(a2b)) : a2b' = <<c>> \o Tail(a2b)
          /\ UNCHANGED b2a
       \/ /\ b2a # <<>>
          /\ counted => ChunkTraffic(Head(b2a))
          /\ \E c \in Corruptions(Head(b2a)) : b2a' = <<c>> \o Tail(b2a)
          /\ UNCHANGED a2b
    /\ UNCHANGED << portVars, impl, tracing, file, prepared, report, wire, spc, seq, retry,
                    result, ft_mode, ft_queue, ft_receiving, rx_queue, loop, rpc,
                    session, disk >>

Lose == LoseRecord(FALSE) /\ UNCHANGED faults
Corrupt == CorruptRecord(FALSE) /\ UNCHANGED faults

\* A link that harms DATA records and their ACKs only, MaxFaults times in
\* all, and delivers every other record.
FaultyLose ==
    /\ faults < MaxFaults
    /\ LoseRecord(TRUE)
    /\ faults' = faults + 1
FaultyCorrupt ==
    /\ faults < MaxFaults
    /\ CorruptRecord(TRUE)
    /\ faults' = faults + 1

\* The link delivers a DATA record of the file "abc" as a record of the same
\* number that carries the matching part of the bytes 98, 82, 0 with the
\* CRC of that part: bytes of the same length and the same CRC16 as the
\* file (a collision of the 16-bit checksum), which no check can tell from
\* the bytes sent.
CorruptBurst ==
    /\ a2b # <<>>
    /\ \E alt \in {<<98, 82, 0>>} : \E k \in 1..total_chunks :
        /\ Len(alt) = Len(file.data)
        /\ alt # file.data
        /\ calculate_crc16(alt) = calculate_crc16(file.data)
        /\ Head(a2b) = packet(k)
        /\ a2b' = <<DATA(k, calculate_crc16(chunks_of(alt)[k]),
                         b64encode(chunks_of(alt)[k]))>> \o Tail(a2b)
    /\ faults' = 1
    /\ UNCHANGED << portVars, impl, tracing, file, prepared, report, b2a, wire, spc, seq,
                    retry, result, ft_mode, ft_queue, ft_receiving, rx_queue, loop, rpc,
                    session, disk >>

\* The link loses the receiver's first ACK:0 and nothing else.
LoseAck0 ==
    /\ faults = 0
    /\ b2a # <<>>
    /\ Head(b2a) = ACK(0)
    /\ b2a' = Tail(b2a)
    /\ faults' = 1
    /\ UNCHANGED << portVars, impl, tracing, file, prepared, report, a2b, wire, spc, seq,
                    retry, result, ft_mode, ft_queue, ft_receiving, rx_queue, loop, rpc,
                    session, disk >>

\* Timers that expire only when nothing is on its way to anyone.
QuietSenderTimeout == InFlight = 0 /\ SenderTimeout
QuietReceiverTimeout == InFlight = 0 /\ CliReceiverTimeout

(***************************************************************************)
(* main of lora_file_transfer.py in mode 'send', and its signal handler.   *)
(***************************************************************************)
\* send_file: "if not os.path.exists(filepath): return False".
SendFileMissing ==
    /\ impl = "cli"
    /\ spc = "idle"
    /\ exit_code = "none"
    /\ spc' = "returned"
    /\ result' = "failure"
    /\ UNCHANGED << radio, prog, tpc, pending, response, late, config, exit_code,
                    writing, impl, tracing, file, prepared, a2b, b2a, wire, seq, retry,
                    ft_mode, ft_queue, ft_receiving, rx_queue, loop, rpc, session,
                    disk, report, faults >>

\* main: "success = send_file(filepath); sys.exit(0 if success else 1)".
MainExit ==
    /\ impl = "cli"
    /\ spc = "returned"
    /\ exit_code = "none"
    /\ exit_code' = IF result = "success" THEN "0" ELSE "1"
    /\ UNCHANGED << radio, prog, tpc, pending, response, late, config, writing,
                    impl, tracing, file, prepared, a2b, b2a, wire, spc, seq, retry,
                    result, ft_mode, ft_queue, ft_receiving, rx_queue, loop, rpc,
                    session, disk, report, faults >>

\* SIGINT or SIGTERM while main runs: cleanup closes the port and calls
\* sys.exit(0); send_file goes no further.
cleanup ==
    /\ impl = "cli"
    /\ exit_code = "none"
    /\ exit_code' = "0"
    /\ spc' = "interrupted"
    /\ UNCHANGED << radio, prog, tpc, pending, response, late, config, writing,
                    impl, tracing, file, prepared, a2b, b2a, wire, seq, retry,
                    result, ft_mode, ft_queue, ft_receiving, rx_queue, loop, rpc,
                    session, disk, report, faults >>

(***************************************************************************)
(* The programs run again: the next transfer of the same name.             *)
(***************************************************************************)
\* The bytes of the next transfer: one byte longer, or empty again.
next_data(data) == Pattern((Len(data) + 1) % (MaxFileLen + 1))

\* send_file is called again (main of the CLI, LoRaGUI.send_file), the
\* receiver waiting for a FILE header.
SendAgain ==
    /\ spc = "returned"
    /\ InFlight = 0
    /\ Len(disk["B"]) < MaxRuns
    /\ IF impl = "cli" THEN rpc = "wait_file" ELSE ft_receiving["B"] = NoSession
    /\ file' = [file EXCEPT !.data = next_data(@)]
    /\ prepared' = prepare(file')
    /\ spc' = "idle"
    /\ seq' = 0
    /\ retry' = 0
    /\ result' = "none"
    /\ UNCHANGED << portVars, impl, tracing, a2b, b2a, wire, ft_mode, ft_queue,
                    ft_receiving, rx_queue, loop, rpc, session, disk, report, faults >>

\* The CLI receiver, which returns after one file, is started again.
ReceiveAgain ==
    /\ impl = "cli"
    /\ rpc = "returned"
    /\ rpc' = "wait_file"
    /\ session' = NoSession
    /\ UNCHANGED << portVars, impl, tracing, file, prepared, a2b, b2a, wire, spc, seq,
                    retry, result, ft_mode, ft_queue, ft_receiving, rx_queue, loop,
                    disk, report, faults >>

(***************************************************************************)
(* The DX-LR02 module at A and the programs that switch its mode:          *)
(* setup_module (LoRaModule.connect has the same steps), get_config, the   *)
(* configuration viewer lora_config.py and the reset tool lora_reset.py.   *)
(* The serial input of A is b2a: reading takes every line that has arrived.*)
(***************************************************************************)
\* The transfer's variables that no mode-switching program touches.
transferVars == << impl, tracing, file, prepared, spc, seq, retry, result, ft_mode,
                   ft_queue, ft_receiving, rx_queue, loop, rpc, session, disk,
                   report, faults, writing >>

\* The module: "+++" toggles the mode and is answered "Entry AT" or
\* "Exit AT"; in AT mode any other command is answered; in data mode any
\* other line goes on the air.
serial_write(cmd) ==
    IF cmd = "+++" THEN
        /\ radio' = IF radio = "data" THEN "at" ELSE "data"
        /\ pending' = Append(pending,
                             CHAT(IF radio = "data" THEN "Entry AT" ELSE "Exit AT"))
        /\ UNCHANGED << a2b, wire >>
    ELSE IF radio = "at" THEN
        /\ pending' = Append(pending, CHAT("+OK"))
        /\ UNCHANGED << radio, a2b, wire >>
    ELSE
        /\ a2b' = Append(a2b, CHAT(cmd))
        /\ wire' = Trace(<<CHAT(cmd)>>)
        /\ UNCHANGED << radio, pending >>

no_write == UNCHANGED << radio, pending, a2b, wire >>

\* An answer of the module reaches the serial input of A.
ModuleAnswers ==
    /\ pending # <<>>
    /\ b2a' = Append(b2a, Head(pending))
    /\ pending' = Tail(pending)
    /\ UNCHANGED << transferVars, a2b, wire, radio, prog, tpc, response, late,
                    config, exit_code >>

\* "needle in response" for the texts the programs look for.
Contains(lines, needle) ==
    LET Substrings(text) ==
            CASE text = "Entry AT" -> {"Entry AT", "Entry"}
              [] text = "Exit AT" -> {"Exit AT", "Exit"}
              [] text = "Power on" -> {"Power on", "Power"}
              [] OTHER -> {}
    IN  \E i \in 1..Len(lines) :
            lines[i].kind = "CHAT" /\ needle \in Substrings(lines[i].text)

\* ser.read(ser.in_waiting or n) after the sleep: everything that has
\* arrived; an answer still on its way is not in it.
serial_read ==
    /\ b2a' = <<>>
    /\ late' = (late \/ pending # <<>>)

\* A setup that never toggles back (ruled out by C12).
second_toggle_never(resp) == FALSE

\* "if 'Entry AT' in response": the second "+++" of setup_module, connect
\* and get_config.
second_toggle(resp) == Contains(resp, "Entry AT")

\* setup_module / LoRaModule.connect: reset_input_buffer, "+++".
setup_module_start ==
    /\ prog = "setup_module"
    /\ tpc = "start"
    /\ b2a' = <<>>
    /\ serial_write("+++")
    /\ tpc' = "sleep1"
    /\ UNCHANGED << transferVars, prog, response, late, config, exit_code >>

\* The first response: "+++" again when it contains "Entry AT", then
\* reset_input_buffer.
setup_module_response ==
    /\ prog = "setup_module"
    /\ tpc = "sleep1"
    /\ serial_read
    /\ response' = b2a
    /\ IF second_toggle(b2a)
       THEN serial_write("+++") /\ tpc' = "sleep2"
       ELSE no_write /\ tpc' = "done"
    /\ UNCHANGED << transferVars, prog, config, exit_code >>

\* The second response is read and dropped.
setup_module_finish ==
    /\ prog = "setup_module"
    /\ tpc = "sleep2"
    /\ serial_read
    /\ no_write
    /\ tpc' = "done"
    /\ UNCHANGED << transferVars, prog, response, config, exit_code >>

\* LoRaModule.get_config, called while receive_loop runs.
get_config_start ==
    /\ prog = "get_config"
    /\ tpc = "start"
    /\ b2a' = <<>>
    /\ serial_write("+++")
    /\ tpc' = "sleep1"
    /\ UNCHANGED << transferVars, prog, response, late, config, exit_code >>

get_config_response ==
    /\ prog = "get_config"
    /\ tpc = "sleep1"
    /\ serial_read
    /\ response' = b2a
    /\ IF second_toggle(b2a)
       THEN serial_write("AT+HELP") /\ tpc' = "AT+HELP" /\ UNCHANGED config
       ELSE no_write /\ tpc' = "done" /\ config' = "None"
    /\ UNCHANGED << transferVars, prog, exit_code >>

get_config_help ==
    /\ prog = "get_config"
    /\ tpc = "AT+HELP"
    /\ serial_read
    /\ config' = "text"
    /\ serial_write("+++")
    /\ tpc' = "sleep2"
    /\ UNCHANGED << transferVars, prog, response, exit_code >>

get_config_finish ==
    /\ prog = "get_config"
    /\ tpc = "sleep2"
    /\ serial_read
    /\ no_write
    /\ tpc' = "done"
    /\ UNCHANGED << transferVars, prog, response, config, exit_code >>

\* lora_config.py: the commands sent once AT mode is entered, in order.
Queries == <<"AT+HELP", "AT+MAC", "AT+MODE", "AT+LEVEL", "AT+BAUD", "AT+SLEEP">>

lora_config_start ==
    /\ prog = "lora_config"
    /\ tpc = "start"
    /\ b2a' = <<>>
    /\ serial_write("+++")
    /\ tpc' = "sleep1"
    /\ UNCHANGED << transferVars, prog, response, late, config, exit_code >>

\* resp of the first or second send_cmd('+++'): "+++" once more when the
\* first contains "Exit" or "Power"; sys.exit(1) unless "Entry AT" is seen.
lora_config_response ==
    /\ prog = "lora_config"
    /\ tpc \in {"sleep1", "sleep1b"}
    /\ serial_read
    /\ response' = b2a
    /\ IF tpc = "sleep1" /\ (Contains(b2a, "Exit") \/ Contains(b2a, "Power"))
       THEN serial_write("+++") /\ tpc' = "sleep1b" /\ UNCHANGED exit_code
       ELSE IF ~Contains(b2a, "Entry AT")
       THEN no_write /\ tpc' = "done" /\ exit_code' = "1"
       ELSE serial_write("AT+HELP") /\ tpc' = "AT+HELP" /\ UNCHANGED exit_code
    /\ UNCHANGED << transferVars, prog, config >>

\* The answer to a query is read and printed; the next query, or the "+++"
\* that leaves AT mode, is sent.
lora_config_query ==
    /\ prog = "lora_config"
    /\ tpc \in {Queries[i] : i \in 1..Len(Queries)}
    /\ serial_read
    /\ response' = b2a
    /\ \E i \in {k \in 1..Len(Queries) : Queries[k] = tpc} :
          IF i < Len(Queries)
          THEN serial_write(Queries[i + 1]) /\ tpc' = Queries[i + 1]
          ELSE serial_write("+++") /\ tpc' = "sleep2"
    /\ UNCHANGED << transferVars, prog, config, exit_code >>

lora_config_finish ==
    /\ prog = "lora_config"
    /\ tpc = "sleep2"
    /\ serial_read
    /\ no_write
    /\ tpc' = "done"
    /\ exit_code' = "0"
    /\ UNCHANGED << transferVars, prog, response, config >>

\* lora_reset.py: "for i in range(2)", i = 0.
lora_reset_start ==
    /\ prog = "lora_reset"
    /\ tpc = "start"
    /\ b2a' = <<>>
    /\ serial_write("+++")
    /\ tpc' = "sleep1"
    /\ UNCHANGED << transferVars, prog, response, late, config, exit_code >>

\* The response of pass i: break on "Exit AT" or "Power on"; otherwise the
\* next pass sends "+++", and after the second pass the loop ends.
lora_reset_response ==
    /\ prog = "lora_reset"
    /\ tpc \in {"sleep1", "sleep2"}
    /\ serial_read
    /\ response' = b2a
    /\ IF Contains(b2a, "Exit AT") \/ Contains(b2a, "Power on") \/ tpc = "sleep2"
       THEN no_write /\ tpc' = "done" /\ exit_code' = "0"
       ELSE serial_write("+++") /\ tpc' = "sleep2" /\ UNCHANGED exit_code
    /\ UNCHANGED << transferVars, prog, config >>

(***************************************************************************)
(* Specifications.                                                         *)
(***************************************************************************)
InitFrom(trace, files) ==
    /\ impl \in {"cli", "gui"}
    /\ tracing = trace
    /\ file \in files
    /\ prepared = prepare(file)
    /\ a2b = <<>>
    /\ b2a = <<>>
    /\ wire = <<>>
    /\ spc = "idle"
    /\ seq = 0
    /\ retry = 0
    /\ result = "none"
    /\ ft_mode = [e \in Endpoints |-> None]
    /\ ft_queue = [e \in Endpoints |-> <<>>]
    /\ ft_receiving = [e \in Endpoints |-> NoSession]
    /\ rx_queue = [e \in Endpoints |-> <<>>]
    /\ loop = [e \in Endpoints |-> "running"]
    /\ rpc = "wait_file"
    /\ session = NoSession
    /\ disk = [e \in Endpoints |-> <<>>]
    /\ report = [e \in Endpoints |-> "none"]
    /\ faults = 0
    /\ writing = NoWrite

InitLink(trace) == InitFrom(trace, Files)

\* No mode-switching program runs: the module is in data mode.
InitPort ==
    /\ radio = "data"
    /\ prog = "none"
    /\ tpc = "idle"
    /\ pending = <<>>
    /\ response = <<>>
    /\ late = FALSE
    /\ config = "unset"
    /\ exit_code = "none"

InitWith(trace) == InitLink(trace) /\ InitPort

Init == InitWith(FALSE)
InitCli == Init /\ impl = "cli"
InitGui == Init /\ impl = "gui"

\* Either variant over a link that loses and corrupts records, with timers
\* that may expire before the answer arrives; the peer only receives.
Next ==
    \/ SendFileStart
    \/ CliSenderRecv
    \/ GuiSenderRecv
    \/ SenderTimeout
    \/ CliReceiverRecv
    \/ CliReceiverTimeout
    \/ \E e \in Endpoints : receive_loop(e)
    \/ \E e \in Endpoints : poll_rx(e)
    \/ Lose
    \/ Corrupt

Spec == Init /\ [][Next]_vars

\* A link that loses, corrupts and reorders nothing, answers arriving
\* within the timeouts, and a peer that only receives.
InitLossless == InitWith(TRUE)

NextLossless ==
    \/ SendFileStart
    \/ CliSenderRecv
    \/ GuiSenderRecv
    \/ CliReceiverRecv
    \/ \E e \in Endpoints : receive_loop(e)

SpecLossless == InitLossless /\ [][NextLossless]_vars /\ WF_vars(NextLossless)

\* The GUI over a reliable link, the peer's user typing while A sends.
NextPeer ==
    \/ SendFileStart
    \/ GuiSenderRecv
    \/ SenderTimeout
    \/ \E e \in Endpoints : receive_loop(e)
    \/ \E e \in Endpoints : poll_rx(e)
    \/ PeerInject

SpecPeer == InitGui /\ [][NextPeer]_vars

\* The CLI pair over a reliable link, the peer's user typing while A sends.
NextChat ==
    \/ SendFileStart
    \/ CliSenderRecv
    \/ CliReceiverRecv
    \/ PeerInject

SpecChat == InitCli /\ [][NextChat]_vars

\* The CLI pair over the lossy link, both processes running: send_file
\* always reads the next line or lets its timer expire, receive_file always
\* reads the next line.
NextCli ==
    \/ SendFileStart
    \/ CliSenderRecv
    \/ SenderTimeout
    \/ CliReceiverRecv
    \/ CliReceiverTimeout
    \/ Lose
    \/ Corrupt

SpecFair ==
    /\ InitCli
    /\ [][NextCli]_vars
    /\ WF_vars(CliSenderRecv \/ SenderTimeout)
    /\ WF_vars(CliReceiverRecv)

\* The CLI pair over a link that harms at most MaxFaults DATA or ACK
\* records, with timers that never expire early.
NextFaulty ==
    \/ SendFileStart
    \/ CliSenderRecv
    \/ QuietSenderTimeout
    \/ CliReceiverRecv
    \/ QuietReceiverTimeout
    \/ FaultyLose
    \/ FaultyCorrupt

SpecFaulty == InitCli /\ [][NextFaulty]_vars

\* Either variant over a link that loses the first ACK:0 and delivers every
\* other record, with timers that never expire early.
NextAckLost ==
    \/ SendFileStart
    \/ CliSenderRecv
    \/ GuiSenderRecv
    \/ QuietSenderTimeout
    \/ CliReceiverRecv
    \/ QuietReceiverTimeout
    \/ \E e \in Endpoints : receive_loop(e)
    \/ LoseAck0

SpecAckLost == Init /\ [][NextAckLost]_vars

\* The lossy link of Spec, which may also deliver bytes that collide with
\* the file's under CRC16.
NextBurst ==
    \/ Next
    \/ CorruptBurst

SpecBurst == Init /\ [][NextBurst]_vars

\* send_file alone, either variant, against a peer and a link that hand it
\* any sequence of lines and take its records off the air.  Its timer
\* expires on the clock, whatever arrives in the meantime; either variant
\* reads every line that has reached it.
NextSend ==
    \/ SendFileStart
    \/ CliSenderRecv
    \/ GuiSenderRecv
    \/ SenderTimeout
    \/ receive_loop("A")
    \/ poll_rx("A")
    \/ Lose
    \/ AnyAnswer

InitSend == InitFrom(TRUE, {f \in Files : Len(f.data) <= CHUNK_SIZE}) /\ InitPort

SpecSend ==
    /\ InitSend
    /\ [][NextSend]_vars
    /\ WF_vars(CliSenderRecv)
    /\ WF_vars(GuiSenderRecv)
    /\ SF_vars(SenderTimeout)
    /\ WF_vars(Lose /\ Len(a2b') < Len(a2b))

\* The CLI pair over a link that loses records, the receiver's saving of the
\* file taken in its two steps: every other line is handled whole.
NextOutput ==
    \/ SendFileStart
    \/ CliSenderRecv
    \/ SenderTimeout
    \/ CliReceiverRecv /\ disk' = disk
    \/ open_output
    \/ write_output
    \/ Lose

SpecOutput == InitCli /\ [][NextOutput]_vars

\* The GUI at A with its three writers on the port, the GUI at B reading.
NextWrite ==
    \/ \E t \in Threads : send(t)
    \/ receive_loop("B")
    \/ poll_rx("B")

InitWrite == InitFrom(FALSE, {f \in Files : f.data = <<>>}) /\ InitPort /\ impl = "gui"

SpecWrite == InitWrite /\ [][NextWrite]_vars

\* Either receiver at B, given lines by a sender that is not send_file.
NextRaw ==
    \/ RawSend
    \/ CliReceiverRecv
    \/ CliReceiverTimeout
    \/ receive_loop("B")
    \/ poll_rx("B")

InitRaw == InitFrom(FALSE, {f \in Files : f.data = <<>>}) /\ InitPort

SpecRaw == InitRaw /\ [][NextRaw]_vars

\* One mode-switching program at A, the module in either mode at its start,
\* answers that may arrive after the read meant for them; get_config runs
\* in the GUI with receive_loop reading the same port.
InitRadio ==
    /\ InitLink(FALSE)
    /\ file.data = <<>>
    /\ prog \in {"setup_module", "get_config", "lora_config", "lora_reset"}
    /\ impl = IF prog = "get_config" THEN "gui" ELSE "cli"
    /\ radio \in {"data", "at"}
    /\ tpc = "start"
    /\ pending = <<>>
    /\ response = <<>>
    /\ late = FALSE
    /\ config = "unset"
    /\ exit_code = "none"

NextRadio ==
    \/ setup_module_start
    \/ setup_module_response
    \/ setup_module_finish
    \/ get_config_start
    \/ get_config_response
    \/ get_config_help
    \/ get_config_finish
    \/ lora_config_start
    \/ lora_config_response
    \/ lora_config_query
    \/ lora_config_finish
    \/ lora_reset_start
    \/ lora_reset_response
    \/ ModuleAnswers
    \/ receive_loop("A")
    \/ poll_rx("A")

SpecRadio == InitRadio /\ [][NextRadio]_vars

\* Lossless transfers of the files of the model and of the one-byte file
\* "A" and the nine-byte file "123456789", every record emitted kept.
CheckString == <<49, 50, 51, 52, 53, 54, 55, 56, 57>>
CrcFiles == Files \cup {[name |-> HelloTxt, data |-> d] : d \in {<<65>>, CheckString}}

InitCrc == InitFrom(TRUE, CrcFiles) /\ InitPort

SpecCrc == InitCrc /\ [][NextLossless]_vars

\* The command 'send <path>' of the CLI over the lossy link, from its
\* start to its exit status, with signals arriving at any moment.
NextMain ==
    \/ SendFileStart
    \/ SendFileMissing
    \/ CliSenderRecv
    \/ SenderTimeout
    \/ CliReceiverRecv
    \/ CliReceiverTimeout
    \/ Lose
    \/ MainExit
    \/ cleanup

SpecMain == InitCli /\ [][NextMain]_vars

\* Lossless transfers of files whose names hold letters, spaces and colons.
ColonNames == UNION {[1..n -> {"a", " ", ":"}] : n \in 0..MaxNameLen}
ColonFiles == {[name |-> n, data |-> Pattern(k)] : n \in ColonNames, k \in 0..MaxFileLen}

InitParse == InitFrom(FALSE, ColonFiles) /\ InitPort

SpecParse == InitParse /\ [][NextLossless]_vars

\* Transfers of one name, one after the other, over the lossless link.  The
\* name in the FILE record is any name: the sender need not be send_file.
WireNames == UNION {[1..n -> {"a", ".", "/"}] : n \in 0..MaxNameLen}
NamedFiles == {[name |-> n, data |-> Pattern(k)] : n \in WireNames, k \in 0..MaxFileLen}

InitSave == InitFrom(FALSE, NamedFiles) /\ InitPort

NextSave ==
    \/ SendFileStart
    \/ CliSenderRecv
    \/ GuiSenderRecv
    \/ CliReceiverRecv
    \/ \E e \in Endpoints : receive_loop(e)
    \/ SendAgain
    \/ ReceiveAgain

SpecSave == InitSave /\ [][NextSave]_vars

(***************************************************************************)
(* The encrypted variants (src/encrypted): receive_loop of the GUI module  *)
(* and of the chat program.  A record made by encrypt is known by the key  *)
(* and the plaintext it was made from and by whether it arrived as sent;   *)
(* AES-GCM authenticates it under the same key when it is intact.          *)
(***************************************************************************)
\* crypto_utils.decrypt: None unless the line starts with "ENC:", decodes
\* and passes decrypt/decrypt_and_verify; otherwise the plaintext.
decrypt(line, key) ==
    IF line.kind = "ENC" /\ line.intact /\ line.key = key
    THEN [none |-> FALSE, text |-> line.plaintext]
    ELSE [none |-> TRUE, text |-> <<>>]

\* The peer puts on the air a record encrypted under the shared key or
\* under another key, of the empty message or of "hi", intact or damaged on
\* the way, or a line that was never encrypted.
EncSend ==
    /\ Len(a2b) + Len(rx_queue["B"]) < MaxInFlight
    /\ \E line \in {[kind |-> "ENC", key |-> k, plaintext |-> p, intact |-> i] :
                        k \in {"shared", "other"}, p \in {<<>>, <<"h", "i">>},
                        i \in BOOLEAN} \cup {CHAT("hello")} :
        /\ a2b' = Append(a2b, line)
        /\ wire' = Trace(<<line>>)
    /\ UNCHANGED << portVars, impl, tracing, file, prepared, report, faults, b2a, spc, seq,
                    retry, result, ft_mode, ft_queue, ft_receiving, rx_queue, loop, rpc,
                    session, disk >>

\* One line of the encrypted receive_loop at B: "if decrypted:" is false
\* for None and for the empty string.
enc_receive_loop ==
    /\ loop["B"] = "running"
    /\ a2b # <<>>
    /\ a2b' = Tail(a2b)
    /\ \E decrypted \in {decrypt(Head(a2b), "shared")} :
        rx_queue' = [rx_queue EXCEPT !["B"] = Append(@,
            IF Head(a2b).kind = "ENC"
            THEN IF ~decrypted.none /\ decrypted.text # <<>>
                 THEN [kind |-> "encrypted", text |-> decrypted.text]
                 ELSE [kind |-> "decrypt_failed", text |-> <<>>]
            ELSE [kind |-> "unencrypted", text |-> Head(a2b).text])]
    /\ UNCHANGED << portVars, impl, tracing, file, prepared, report, faults, b2a, wire, spc,
                    seq, retry, result, ft_mode, ft_queue, ft_receiving, loop, rpc, session,
                    disk >>

NextEnc ==
    \/ EncSend
    \/ enc_receive_loop
    \/ poll_rx("B")

SpecEnc == InitGui /\ [][NextEnc]_vars

(***************************************************************************)
(* Properties.                                                             *)
(***************************************************************************)
IsPrefix(u, v) == Len(u) <= Len(v) /\ u = SubSeq(v, 1, Len(u))

\* The records a transfer of the file puts on the air when nothing is lost:
\* FILE, ACK:0, DATA:k and ACK:k for k = 1..total_chunks, DONE, OK.
LosslessWire ==
    <<header, ACK(0)>>
    \o [i \in 1..(2 * total_chunks) |->
            IF i % 2 = 1 THEN packet((i + 1) \div 2) ELSE ACK(i \div 2)]
    \o <<done_packet, OK>>

Delivered ==
    disk["B"] = <<[name |-> RECEIVE_DIR \o <<"/">> \o file.name, data |-> file.data]>>

\* C1: over a link that loses and corrupts nothing, the records on the air
\* are always a prefix of FILE, ACK:0, DATA:1, ACK:1, ..., DATA:total,
\* ACK:total, DONE, OK; send_file returns, and when it has returned it
\* reports success, the whole sequence with its single OK has been emitted
\* and the receiver holds one file, byte for byte the file sent.
C1_LosslessTransfer ==
    /\ [](IsPrefix(wire, LosslessWire))
    /\ [](spc = "returned" =>
            /\ result = "success"
            /\ wire = LosslessWire
            /\ Delivered)
    /\ <>(spc = "returned")

\* A transfer of two chunks, completed over the lossless link.
C1_Witness ==
    /\ tracing
    /\ total_chunks = 2
    /\ spc = "returned"
    /\ result = "success"
    /\ wire = LosslessWire
    /\ Delivered

(***************************************************************************)
(* What a step did, read off the state before and after it.                *)
(***************************************************************************)
\* The lines waiting for send_file, and the receiver's state at e.
SenderInbox == IF impl = "cli" THEN b2a ELSE ft_queue["A"]
ReceiverSession(e) ==
    IF impl = "gui" THEN ft_receiving[e]
    ELSE IF e = "B" THEN session ELSE NoSession
Store(e) ==
    IF ReceiverSession(e) = NoSession THEN EmptyChunks
    ELSE ReceiverSession(e).chunks

\* send_file finished an attempt; it went on to the next record; it took
\* the first line waiting for it.
SenderMoved == spc' # spc \/ seq' # seq \/ retry' # retry
Advanced == spc' \in {"chunks", "done"} /\ (spc' # spc \/ seq' # seq)
SenderRead ==
    /\ spc \in Waiting
    /\ SenderInbox # <<>>
    /\ IF impl = "cli" THEN SenderMoved
       ELSE Len(ft_queue'["A"]) < Len(ft_queue["A"])

\* The kinds of the records endpoint A put on the air in this step.
SentKinds == {a2b'[i].kind : i \in (Len(a2b) + 1)..Len(a2b')}

\* The receiver at B handled the DONE record at the head of its input.
HandledDone ==
    /\ ReceiverSession("B") # NoSession
    /\ a2b # <<>>
    /\ Head(a2b).kind = "DONE"
    /\ rpc' # rpc \/ ft_receiving' # ft_receiving \/ loop' # loop

\* C2: when the receiver handles DONE while a sequence number of
\* 1..total_chunks is absent from its store, whatever else the store holds,
\* it emits ABORT, writes no file, emits no OK and ends the session failed.
C2_MissingChunkAborts ==
    [][(HandledDone
        /\ missing(Store("B"), ReceiverSession("B").total_chunks) # {})
       => /\ b2a' = Append(b2a, ABORT)
          /\ disk' = disk
          /\ rpc' \in {"wait_file", "recv"}
          /\ loop' = loop
          /\ ReceiverSession("B")' = NoSession]_vars

\* C3: when the CLI receiver finds at DONE that the CRC of the reassembled
\* bytes differs from the CRC the DONE record carries, it emits ABORT and
\* writes no file, and send_file eventually returns failure.
C3_FileCrcMismatch ==
    /\ [][(report'["B"] = "File CRC mismatch" /\ report["B"] # "File CRC mismatch")
          => (b2a' = b2a \o <<ABORT>> /\ disk' = disk /\ HandledDone)]_vars
    /\ [](report["B"] = "File CRC mismatch" => disk["B"] = <<>>)
    /\ (report["B"] = "File CRC mismatch"
          ~> (spc = "returned" /\ result = "failure"))

\* The receiver rejected the file at DONE and send_file has returned failure.
C3_Witness ==
    /\ impl = "cli"
    /\ report["B"] = "File CRC mismatch"
    /\ disk["B"] = <<>>
    /\ spc = "returned"
    /\ result = "failure"

\* C4: send_file goes on from the FILE header or from DATA:k to the next
\* record only on reading the ACK it awaits (ACK:0, ACK:k); no other line,
\* OK, NACK, ABORT or another ACK, lets it advance.
C4_StopAndWait ==
    [][(spc \in {"header", "chunks"} /\ Advanced)
       => (SenderInbox # <<>> /\ Head(SenderInbox) = ACK(expected_seq))]_vars

\* C5: a chunk enters the store, or replaces one, only as the decoded bytes
\* of the DATA record being handled, stored under that record's sequence
\* number, and only when the CRC of those bytes is the CRC the record
\* carries.
C5_StoredChunksVerified ==
    [][\A e \in Endpoints : \A s \in DOMAIN (Store(e)') :
        (s \notin DOMAIN Store(e) \/ (Store(e)')[s] # Store(e)[s])
        => /\ Inbox(e) # <<>>
           /\ Head(Inbox(e)).kind = "DATA"
           /\ Head(Inbox(e)).seq = s
           /\ b64decode(Head(Inbox(e)).b64).ok
           /\ (Store(e)')[s] = b64decode(Head(Inbox(e)).b64).bytes
           /\ calculate_crc16((Store(e)')[s]) = Head(Inbox(e)).crc]_vars

\* The GUI receiver holds a chunk and has answered NACK to a DATA record.
C5_Witness ==
    /\ impl = "gui"
    /\ Store("B") # EmptyChunks
    /\ \E i \in 1..Len(b2a) : b2a[i].kind = "NACK"

\* C6: in the GUI module no receiver session is created at an endpoint
\* while its send_file is in progress, so that a sender session and a
\* receiver session are never active together.
C6_OneSessionAtATime ==
    [][(impl = "gui" /\ spc \in Waiting)
       => (ft_receiving'["A"] = ft_receiving["A"]
           \/ ft_receiving'["A"] = NoSession)]_vars

\* C7: when the attempt that follows the MAX_RETRIES-th emission of a DATA
\* record fails, send_file emits ABORT, once, and returns failure; once it
\* has returned it emits nothing more.
C7_DataRetryExhaustion ==
    [][/\ (spc = "chunks" /\ retry = MAX_RETRIES - 1 /\ SenderMoved /\ ~Advanced)
          => /\ a2b' = Append(a2b, ABORT)
             /\ spc' = "returned"
             /\ result' = "failure"
       /\ spc = "returned"
          => /\ spc' = "returned"
             /\ result' = result
             /\ SentKinds = {}]_vars

\* send_file gave up on a chunk: ABORT was its last record.
C7_Witness ==
    /\ spc = "returned"
    /\ result = "failure"
    /\ seq >= 1
    /\ retry = MAX_RETRIES - 1
    /\ a2b # <<>>
    /\ a2b[Len(a2b)] = ABORT

\* C8: send_file emits ABORT only when the retries of a DATA record are
\* exhausted; when the retries of the FILE header or of DONE are exhausted
\* it returns failure and emits nothing.
C8_AbortOnlyForData ==
    [][/\ "ABORT" \in SentKinds
          => /\ spc = "chunks"
             /\ retry = MAX_RETRIES - 1
             /\ spc' = "returned"
             /\ result' = "failure"
       /\ (spc \in {"header", "done"} /\ spc' = "returned" /\ result' = "failure")
          => /\ retry = MAX_RETRIES - 1
             /\ SentKinds = {}]_vars

\* send_file gave up on the FILE header of a file with chunks: no ABORT.
C8_Witness ==
    /\ spc = "returned"
    /\ result = "failure"
    /\ total_chunks > 0
    /\ seq = 0
    /\ retry = MAX_RETRIES - 1
    /\ \A i \in 1..Len(a2b) : a2b[i] # ABORT

\* C9: when send_file reads ABORT while waiting, it returns failure at once
\* and emits no further FILE, DATA or DONE record.
C9_AbortStopsSender ==
    [][(SenderRead /\ Head(SenderInbox) = ABORT)
       => /\ spc' = "returned"
          /\ result' = "failure"
          /\ SentKinds \cap {"FILE", "DATA", "DONE"} = {}]_vars

\* C10: when fewer than MAX_RETRIES DATA or ACK records are lost or
\* corrupted and every other record is delivered, send_file does not return
\* failure: it returns success with the receiver holding the file sent.
C10_SurvivesFewFaults ==
    (faults < MAX_RETRIES /\ spc = "returned") => (result = "success" /\ Delivered)

\* The records the receiver at B put on the air in this step, and how many
\* of them are ACKs (only B writes to b2a when the peer's user is silent).
EmittedB ==
    IF Len(b2a') > Len(b2a) THEN SubSeq(b2a', Len(b2a) + 1, Len(b2a')) ELSE <<>>
AcksEmitted == Cardinality({i \in 1..Len(EmittedB) : EmittedB[i].kind = "ACK"})

\* The receiver at B answered the DATA record at the head of its input
\* after verifying its CRC and storing its bytes.
AcceptedData ==
    /\ a2b # <<>>
    /\ Head(a2b).kind = "DATA"
    /\ EmittedB # <<>>
    /\ ReceiverSession("B") # NoSession
    /\ crc_ok(Head(a2b))
    /\ Head(a2b).seq \in DOMAIN (Store("B")')
    /\ (Store("B")')[Head(a2b).seq] = b64decode(Head(a2b).b64).bytes

\* The FILE header at the head of B's input is the header of the transfer B
\* is already receiving: a retransmission.
HeaderRepeated ==
    /\ a2b # <<>>
    /\ Head(a2b).kind = "FILE"
    /\ ReceiverSession("B") # NoSession
    /\ ReceiverSession("B").filename = Head(a2b).name
    /\ ReceiverSession("B").total_chunks = Head(a2b).total
    /\ ReceiverSession("B").size = Head(a2b).size

\* The receiver at B answered a FILE header that starts a transfer.
HeaderOpened ==
    /\ a2b # <<>>
    /\ Head(a2b).kind = "FILE"
    /\ EmittedB # <<>>
    /\ ~HeaderRepeated

\* C11: the ACKs the receiver emits are one for the header that starts the
\* transfer and one for every DATA record it accepts, in every step: so over
\* a transfer, retransmitted headers and DATA records included, the number
\* of ACKs is the number of accepted DATA records plus one.
C11_AckCount ==
    [][AcksEmitted = (IF AcceptedData THEN 1 ELSE 0)
                     + (IF HeaderOpened THEN 1 ELSE 0)]_vars

\* C12: with every answer of the module read in time, setup_module (and
\* connect) ends with the module in data mode whichever mode it started in,
\* and it sends the second "+++" exactly when the first response contains
\* "Entry AT".
C12_SetupEndsInDataMode ==
    /\ []((prog = "setup_module" /\ tpc = "done" /\ ~late) => radio = "data")
    /\ [][(prog = "setup_module" /\ tpc = "sleep1" /\ tpc' # tpc)
          => ((radio' # radio) <=> Contains(b2a, "Entry AT"))]_vars

\* setup_module found the module in data mode and toggled it twice.
C12_Witness ==
    /\ prog = "setup_module"
    /\ tpc = "done"
    /\ ~late
    /\ Contains(response, "Entry AT")
    /\ radio = "data"

\* C13: with receive_loop running on the same port and every answer of the
\* module in the port before get_config reads, get_config returns with the
\* module in data mode: after AT+HELP and a second "+++" when its first
\* response contains "Entry AT", and returning nothing when it does not.
C13_GetConfigEndsInDataMode ==
    (prog = "get_config" /\ tpc = "done" /\ ~late)
    => /\ radio = "data"
       /\ (config = "None") <=> ~Contains(response, "Entry AT")

\* C14: the configuration viewer and the reset tool end, on every exit
\* path and for either initial mode, with the module in data mode: also
\* when the viewer does not see "Entry AT" and exits with status 1.
C14_ToolsEndInDataMode ==
    (prog \in {"lora_config", "lora_reset"} /\ tpc = "done") => radio = "data"

\* A path names a file directly in RECEIVE_DIR: RECEIVE_DIR, "/", and one
\* component that is not empty, holds no "/" and is neither "." nor "..".
DirectChild(path) ==
    /\ Len(path) > Len(RECEIVE_DIR) + 1
    /\ SubSeq(path, 1, Len(RECEIVE_DIR) + 1) = RECEIVE_DIR \o <<"/">>
    /\ \A i \in (Len(RECEIVE_DIR) + 2)..Len(path) : path[i] # "/"
    /\ SubSeq(path, Len(RECEIVE_DIR) + 2, Len(path)) \notin {<<".">>, <<".", ".">>}

\* C15: every path a receiver has written is a direct child of RECEIVE_DIR,
\* whatever name the FILE record carried: names with "/", ".", ".." and the
\* empty name included.
C15_WritesInsideReceiveDir ==
    \A e \in Endpoints : \A i \in 1..Len(disk[e]) : DirectChild(disk[e][i].name)

\* A receiver given the name "../" twice has written _1, and then _2.
C15_Witness ==
    /\ file.name = <<".", ".", "/">>
    /\ Len(disk["B"]) = 2
    /\ disk["B"][1].name = RECEIVE_DIR \o <<"/", "_", "1">>
    /\ disk["B"][2].name = RECEIVE_DIR \o <<"/", "_", "2">>

\* The path tried for counter k: <base><ext> for 0, <base>_<k><ext> after.
Candidate(filename, k) ==
    IF k = 0 THEN RECEIVE_DIR \o <<"/">> \o basename(filename)
    ELSE RECEIVE_DIR \o <<"/">> \o splitext(basename(filename)).base
         \o <<"_">> \o str(k) \o splitext(basename(filename)).ext

\* C16: the receiver never writes a path twice; each file it writes goes
\* to <base><ext> when that path does not exist and otherwise to
\* <base>_<k><ext> for the smallest k >= 1 whose path does not exist, and
\* holds the bytes of the transfer that just ended.
C16_NeverOverwrites ==
    /\ [](\A i, j \in 1..Len(disk["B"]) :
            disk["B"][i].name = disk["B"][j].name => i = j)
    /\ [][Len(disk'["B"]) > Len(disk["B"])
          => LET written == disk'["B"][Len(disk'["B"])] IN
             /\ Len(disk'["B"]) = Len(disk["B"]) + 1
             /\ written.data = file.data
             /\ \E k \in 0..(Len(disk["B"]) + 1) :
                 /\ written.name = Candidate(file.name, k)
                 /\ ~exists(disk["B"], written.name)
                 /\ \A j \in 0..(k - 1) :
                        exists(disk["B"], Candidate(file.name, j))]_vars

\* Three transfers of "a.a" saved as a.a, a_1.a and a_2.a.
C16_Witness ==
    /\ file.name = <<"a", ".", "a">>
    /\ Len(disk["B"]) = 3
    /\ disk["B"][1].name = RECEIVE_DIR \o <<"/", "a", ".", "a">>
    /\ disk["B"][2].name = RECEIVE_DIR \o <<"/", "a", "_", "1", ".", "a">>
    /\ disk["B"][3].name = RECEIVE_DIR \o <<"/", "a", "_", "2", ".", "a">>
    /\ disk["B"][1].data # disk["B"][2].data

\* The CRC fields of the records emitted, and the CRC of the DONE record.
CrcFields == {wire[i].crc : i \in {j \in 1..Len(wire) : wire[j].kind \in {"DATA", "DONE"}}}
DoneCrcs == {wire[i].crc : i \in {j \in 1..Len(wire) : wire[j].kind = "DONE"}}
IsHex4(crc) == Len(crc) = 4 /\ \A i \in 1..4 : \E d \in 1..16 : crc[i] = HexDigits[d]

\* C17 as claimed: the CRC carried by DONE is 1d0f for the empty file, 58e5
\* for the file "A" and 29b1 for "123456789", and every CRC field is four
\* lowercase hex digits.
C17_CrcVectorsClaimed ==
    /\ \A crc \in CrcFields : IsHex4(crc)
    /\ file.data = <<>> => DoneCrcs \subseteq {<<"1", "d", "0", "f">>}
    /\ file.data = <<65>> => DoneCrcs \subseteq {<<"5", "8", "e", "5">>}
    /\ file.data = CheckString => DoneCrcs \subseteq {<<"2", "9", "b", "1">>}

\* C17, amended: the CRC carried by DONE is ffff for the empty file, b915
\* for the file "A" and 29b1 for "123456789", and every CRC field is four
\* lowercase hex digits.
C17_CrcVectors ==
    /\ \A crc \in CrcFields : IsHex4(crc)
    /\ file.data = <<>> => DoneCrcs \subseteq {<<"f", "f", "f", "f">>}
    /\ file.data = <<65>> => DoneCrcs \subseteq {<<"b", "9", "1", "5">>}
    /\ file.data = CheckString => DoneCrcs \subseteq {<<"2", "9", "b", "1">>}

\* The file "123456789" was sent with DONE:29b1 and the receiver, which
\* computes the CRC of what it joined, answered OK.
C17_Witness ==
    /\ file.data = CheckString
    /\ DoneCrcs = {<<"2", "9", "b", "1">>}
    /\ result = "success"

\* C18: 'send <path>' exits with status 0 only when send_file returned
\* success, and with status 1 on every other outcome: a missing file,
\* exhausted retries, a transfer cut short by SIGINT or SIGTERM.
C18_ExitStatus ==
    exit_code # "none" => (exit_code = "0" <=> result = "success")

\* C19: every FILE, DATA and DONE record send_file has put on the air is
\* parsed by the receiver into the fields it was built from, whatever the
\* file name, and the receiver that reads the FILE header opens a session
\* with that name, chunk count and size and answers ACK:0.
C19_RecordsParseBack ==
    /\ [](\A i \in 1..Len(a2b) :
            a2b[i].kind \in {"FILE", "DATA", "DONE"} => on_wire(a2b[i]) = a2b[i])
    /\ [][(a2b # <<>> /\ Head(a2b).kind = "FILE" /\ Len(a2b') < Len(a2b))
          => /\ ReceiverSession("B")' = new_session(Head(a2b))
             /\ b2a' = Append(b2a, ACK(0))]_vars

\* The records of the transfer of a zero-byte file, and the file it leaves.
EmptyFileWire ==
    <<FILE(file.name, 0, 0), ACK(0), DONE(<<"f", "f", "f", "f">>), OK>>
EmptyFileSaved ==
    disk["B"] = <<[name |-> RECEIVE_DIR \o <<"/">> \o file.name, data |-> <<>>]>>

\* C20: for a zero-byte file the records on the air are FILE:<name>:0:0,
\* ACK:0, DONE:ffff (the CRC of no bytes) and OK, in this order and with no
\* DATA record; send_file returns, with success, and the receiver has then
\* written one file of zero bytes.
C20_EmptyFile ==
    /\ [](file.data = <<>> => IsPrefix(wire, EmptyFileWire))
    /\ []((file.data = <<>> /\ spc = "returned")
            => (result = "success" /\ wire = EmptyFileWire /\ EmptyFileSaved))
    /\ ((file.data = <<>> /\ spc = "idle") ~> (spc = "returned"))

\* The GUI pair has transferred the zero-byte file.
C20_Witness ==
    /\ impl = "gui"
    /\ file.data = <<>>
    /\ spc = "returned"
    /\ result = "success"
    /\ wire = EmptyFileWire
    /\ EmptyFileSaved

\* C21: every chat line the GUI dispatcher at A takes from the port goes to
\* the chat queue as it was received, whether a send is active or not: also
\* a line that only begins with OK or ABORT, such as "OKAY" or "ABORTED
\* mission".
C21_ChatPassedVerbatim ==
    [][(impl = "gui" /\ b2a # <<>> /\ Head(b2a).kind = "CHAT" /\ b2a' = Tail(b2a))
       => rx_queue'["A"] = Append(rx_queue["A"], Head(b2a))]_vars

\* C22: whatever record the GUI dispatcher is given, at either endpoint, its
\* receive loop is still running afterwards and goes on to dispatch the
\* records that follow.
C22_DispatcherKeepsRunning ==
    \A e \in Endpoints : loop[e] = "running"

\* C24: while send_file waits for ACK:n (after the FILE header, n = 0, or
\* after DATA:n), a line waiting for it that is neither ACK:n, NACK:n nor
\* ABORT changes nothing of the transfer: the record awaited, the attempts
\* used and the records sent stay as they are.
C24_UnexpectedDiscarded ==
    [][(/\ spc \in {"header", "chunks"}
        /\ SenderInbox # <<>>
        /\ Head(SenderInbox) \notin {ACK(expected_seq), NACK(expected_seq), ABORT})
       => (spc' = spc /\ seq' = seq /\ retry' = retry /\ SentKinds = {})]_vars

\* C25: a chat line read at A while its send_file is waiting leaves the
\* transfer as it was: the record awaited and the attempts used do not
\* change and nothing is sent again; in the GUI the line is put on the chat
\* queue.
C25_ChatDuringSend ==
    [][(/\ spc \in Waiting
        /\ b2a # <<>>
        /\ Head(b2a).kind = "CHAT"
        /\ Len(b2a') < Len(b2a))
       => /\ spc' = spc /\ seq' = seq /\ retry' = retry /\ SentKinds = {}
          /\ impl = "gui" => rx_queue'["A"] = Append(rx_queue["A"], Head(b2a))]_vars

\* C26: while a receiver holds a session, a FILE record at the head of its
\* input leaves that session as it is: its file name, chunk count, size
\* and chunk store.
C26_FileOnlyWhenIdle ==
    [][\A e \in Endpoints :
        (/\ ReceiverSession(e) # NoSession
         /\ Inbox(e) # <<>>
         /\ Head(Inbox(e)).kind = "FILE")
        => ReceiverSession(e)' = ReceiverSession(e)]_vars

\* C27: when the timer of the FILE header expires, send_file sends the
\* header again while attempts are left; the receiver that already holds
\* the session of that header answers it with ACK:0; and when only the
\* first ACK:0 was lost, send_file returns success with the file delivered.
C27_HeaderRetransmission ==
    /\ [][(spc = "header" /\ SenderInbox = <<>> /\ SenderMoved)
          => IF retry + 1 < MAX_RETRIES
             THEN a2b' = Append(a2b, header) /\ retry' = retry + 1
             ELSE spc' = "returned" /\ result' = "failure"]_vars
    /\ [][(HeaderRepeated /\ Len(a2b') < Len(a2b))
          => b2a' = Append(b2a, ACK(0))]_vars
    /\ [](spc = "returned" => (result = "success" /\ Delivered))

\* C28: the attempt counter of the record awaited stays below MAX_RETRIES;
\* every FILE, DATA or DONE record put on the air is either the first
\* emission of the next record, with the counter at 0, or one more emission
\* of the same record, with the counter one higher, so that no record is
\* emitted more than MAX_RETRIES times; a timeout and a NACK for the record
\* awaited each use one attempt, or end send_file with failure when it was
\* the last; and on going on to the next record the counter is 0 again.
C28_AttemptsPerRecord ==
    /\ [](retry < MAX_RETRIES)
    /\ [][(SentKinds \cap {"FILE", "DATA", "DONE"} # {})
          => /\ spc' \in Waiting
             /\ a2b' = Append(a2b, current_packet')
             /\ \/ retry' = 0 /\ (spc' # spc \/ seq' # seq)
                \/ retry' = retry + 1 /\ spc' = spc /\ seq' = seq]_vars
    /\ [][(/\ spc \in Waiting
           /\ \/ SenderInbox = <<>> /\ SenderMoved
              \/ SenderRead /\ Head(SenderInbox) = NACK(expected_seq))
          => IF retry + 1 < MAX_RETRIES
             THEN retry' = retry + 1 /\ spc' = spc /\ seq' = seq
             ELSE spc' = "returned" /\ result' = "failure" /\ retry' = retry]_vars
    /\ [][Advanced => retry' = 0]_vars

\* send_file has emitted DATA:2 MAX_RETRIES times and awaits its answer; B
\* holds chunk 1 and has not stored chunk 2.
C28_Witness ==
    /\ spc = "chunks"
    /\ seq = 2
    /\ retry = MAX_RETRIES - 1
    /\ DOMAIN Store("B") = {1}

\* C29: when a receiver that holds a session takes a DATA record with a
\* numeric sequence number, it puts exactly one record on the air: ACK:seq,
\* with the decoded bytes stored under seq, when the base64 text decodes
\* and the CRC matches, and otherwise NACK:seq with the chunk store as it
\* was; whatever the session's total_chunks, 0 included.
C29_OneReplyPerData ==
    [][(/\ a2b # <<>>
        /\ on_wire(Head(a2b)).kind = "DATA"
        /\ ReceiverSession("B") # NoSession
        /\ Len(a2b') < Len(a2b))
       => LET line == on_wire(Head(a2b)) IN
          IF crc_ok(line)
          THEN /\ EmittedB = <<ACK(line.seq)>>
               /\ Store("B")' = store(Store("B"), line.seq, b64decode(line.b64).bytes)
          ELSE /\ EmittedB = <<NACK(line.seq)>>
               /\ Store("B")' = Store("B")]_vars

\* C30: when a receiver takes a malformed control record (a FILE line that
\* does not have four fields or whose counts are not numbers, a DATA line
\* that does not have four fields or whose sequence number is not a number),
\* it puts nothing on the air, its session stays as it was, and the line
\* does not reach the chat queue.
C30_MalformedDropped ==
    [][(/\ a2b # <<>>
        /\ Head(a2b).kind = "RAW"
        /\ on_wire(Head(a2b)).kind \in {"INVALID", "BADSEQ"}
        /\ Len(a2b') < Len(a2b))
       => /\ EmittedB = <<>>
          /\ ReceiverSession("B")' = ReceiverSession("B")
          /\ rx_queue' = rx_queue]_vars

\* C33: when the CLI receiver accepts a DATA record whose sequence number
\* equals expected_seq, expected_seq becomes the smallest number from 1 on
\* that is not a key of the chunk store; any other DATA record leaves
\* expected_seq as it was.
C33_NextExpected ==
    [][(/\ impl = "cli"
        /\ rpc = "recv"
        /\ a2b # <<>>
        /\ on_wire(Head(a2b)).kind = "DATA"
        /\ Len(a2b') < Len(a2b))
       => LET line == on_wire(Head(a2b))
              held == DOMAIN session'.chunks
              first_missing == CHOOSE n \in 1..(Cardinality(held) + 1) :
                                  n \notin held /\ \A m \in 1..(n - 1) : m \in held
          IN IF crc_ok(line) /\ line.seq = session.expected_seq
             THEN session'.expected_seq = first_missing
             ELSE session'.expected_seq = session.expected_seq]_vars

\* C34: the FILE header carries the size n of the file and the number of
\* chunks, which is n / CHUNK_SIZE rounded up (0 for the empty file); the
\* DATA records emitted are numbered 1, 2, ... in order, each carries
\* CHUNK_SIZE bytes except that the one numbered total may carry fewer, but
\* at least one; their bytes in order are the beginning of the file, and
\* the whole file once send_file has reported success.
C34_Chunking ==
    LET n == Len(file.data)
        sent == SelectSeq(wire, LAMBDA r : r.kind = "DATA")
        bytes(k) == b64decode(sent[k].b64).bytes
        joined[k \in 0..Len(sent)] == IF k = 0 THEN <<>> ELSE joined[k - 1] \o bytes(k)
    IN /\ \A i \in 1..Len(wire) : wire[i].kind = "FILE" =>
            /\ wire[i].size = n
            /\ wire[i].total * CHUNK_SIZE >= n
            /\ wire[i].total * CHUNK_SIZE < n + CHUNK_SIZE
            /\ wire[i].total = total_chunks
       /\ \A k \in 1..Len(sent) :
            /\ sent[k].seq = k
            /\ k <= total_chunks
            /\ Len(bytes(k)) \in 1..CHUNK_SIZE
            /\ k < total_chunks => Len(bytes(k)) = CHUNK_SIZE
       /\ IsPrefix(joined[Len(sent)], file.data)
       /\ result = "success" => Len(sent) = total_chunks /\ joined[Len(sent)] = file.data

\* A file of exactly two full chunks has been sent and acknowledged.
C34_Witness ==
    /\ Len(file.data) = 2 * CHUNK_SIZE
    /\ result = "success"
    /\ Len(SelectSeq(wire, LAMBDA r : r.kind = "DATA")) = 2

\* C40: the message the encrypted receive_loop surfaces for a line is
\* "decryption failed" only when the line starts with ENC: and decrypt
\* returned None; a record that authenticates under the current key is
\* surfaced as decrypted with its plaintext, the empty one included; a line
\* without the prefix is surfaced as unencrypted.
C40_DecryptOutcome ==
    [][Len(a2b') < Len(a2b)
       => LET line == Head(a2b)
              shown == rx_queue'["B"][Len(rx_queue'["B"])]
          IN /\ Len(rx_queue'["B"]) = Len(rx_queue["B"]) + 1
             /\ shown.kind = "decrypt_failed" =>
                    line.kind = "ENC" /\ decrypt(line, "shared").none
             /\ (line.kind = "ENC" /\ line.intact /\ line.key = "shared") =>
                    shown = [kind |-> "encrypted", text |-> line.plaintext]
             /\ line.kind # "ENC" => shown.kind = "unencrypted"]_vars

\* C36: a FILE line whose total_chunks or file_size is negative opens no
\* session and is not answered: the receiver that takes it emits nothing
\* and its session is as before.
C36_NegativeMetadata ==
    [][(/\ a2b # <<>>
        /\ on_wire(Head(a2b)).kind = "FILE"
        /\ (on_wire(Head(a2b)).total < 0 \/ on_wire(Head(a2b)).size < 0)
        /\ Len(a2b') < Len(a2b))
       => /\ EmittedB = <<>>
          /\ ReceiverSession("B")' = ReceiverSession("B")]_vars

\* C37: the CLI receiver's session does not end because time passes: a
\* session in the chunk loop leaves it only by handling a DONE or an ABORT
\* line, its chunk store changes only by handling a DATA line, and a
\* timeout of read_line leaves both as they were.
C37_NoTimeLimit ==
    [][(impl = "cli" /\ rpc = "recv")
       => /\ rpc' # "recv" =>
                /\ a2b # <<>>
                /\ Len(a2b') < Len(a2b)
                /\ on_wire(Head(a2b)).kind \in {"DONE", "ABORT"}
          /\ (rpc' = "recv" /\ session' # session) =>
                /\ a2b # <<>>
                /\ Len(a2b') < Len(a2b)
                /\ on_wire(Head(a2b)).kind = "DATA"
          /\ a2b = <<>> => rpc' = "recv" /\ session' = session]_vars

\* C38 as claimed: when the peer only receives, send_file has reported
\* success only if the receiver has written a file whose bytes are the
\* bytes of the file sent, whatever the link lost or corrupted.
C38_SuccessMeansDeliveredClaimed ==
    result = "success" =>
        \E i \in 1..Len(disk["B"]) : disk["B"][i].data = file.data

\* C38: when the peer only receives and the link loses records or corrupts
\* them in ways the CRC16 checks detect (no record was delivered carrying
\* other bytes under a matching CRC), send_file has reported success only
\* if the receiver has written a file whose bytes are the bytes of the file
\* sent.
C38_SuccessMeansDelivered ==
    (result = "success" /\ faults = 0) =>
        \E i \in 1..Len(disk["B"]) : disk["B"][i].data = file.data

\* send_file reported success for a file of two chunks on an OK that
\* arrived after DONE had been sent more than once.
C38_Witness ==
    /\ result = "success"
    /\ faults = 0
    /\ total_chunks = 2
    /\ retry > 0
    /\ report["B"] = "File saved"
    /\ Len(disk["B"]) = 1
    /\ disk["B"][1].data = file.data

\* C39: send_file returns, with success or failure, whatever the link does
\* and whatever lines it is handed; by then it has emitted at most
\* MAX_RETRIES * (total_chunks + 2) FILE, DATA and DONE records and at most
\* one ABORT; and when the GUI's send_file has returned, ft_mode is None.
C39_SendFileTerminates ==
    LET emitted == Cardinality({i \in 1..Len(wire) :
                                    wire[i].kind \in {"FILE", "DATA", "DONE"}})
        aborts == Cardinality({i \in 1..Len(wire) : wire[i] = ABORT})
    IN /\ [](emitted <= MAX_RETRIES * (total_chunks + 2) /\ aborts <= 1)
       /\ [](spc = "returned" => result \in {"success", "failure"})
       /\ []((impl = "gui" /\ spc = "returned") => ft_mode["A"] = None)
       /\ (spc \in Waiting) ~> (spc = "returned")

\* send_file has returned after emitting every record of a one-chunk file
\* MAX_RETRIES times.
C39_Witness ==
    /\ spc = "returned"
    /\ total_chunks = 1
    /\ Cardinality({i \in 1..Len(wire) : wire[i].kind \in {"FILE", "DATA", "DONE"}})
         = MAX_RETRIES * (total_chunks + 2)

\* C31: every complete line that reaches the port is handed on exactly once:
\* a read takes from the port only the line it delivers, so no step takes
\* more than one line out of either direction of the link.
C31_EveryLineDelivered ==
    [][/\ Len(a2b') >= Len(a2b) - 1
       /\ Len(b2a') >= Len(b2a) - 1]_vars

\* C35: the final path never holds a partially written file, and OK is on
\* its way to the sender only when the complete file is in place.  The link
\* alters no record, so the complete file is the file sent.
C35_AtomicOutput ==
    /\ \A i \in 1..Len(disk["B"]) : disk["B"][i].data = file.data
    /\ (\E i \in 1..Len(b2a) : b2a[i] = OK)
            => \E i \in 1..Len(disk["B"]) : disk["B"][i].data = file.data

\* C32: the bytes of two records written by different threads are never
\* interleaved: every line on the port is one record, whole, as a thread
\* wrote it.
C32_WholeRecords ==
    \A i \in 1..Len(a2b) :
        \E t \in Threads : Append(a2b[i].text, "\r\n") = message(t)

====
